---------------------------- MODULE Spec2Model ----------------------------
(***************************************************************************)
(* SegaOS: the inter-CPU command/status handshake (common.h), the Word RAM *)
(* bank hand-over, the Sub CPU command dispatcher (sub.c), the Main CPU    *)
(* frame loop (main.c, input.h, mouse.c) and the window manager (wm.c).    *)
(***************************************************************************)
EXTENDS Integers, Sequences, FiniteSets, TLC

(***************************************************************************)
(* Program constants                                                       *)
(***************************************************************************)
CMD_NONE == 0
CMD_BOOT == 1
CMD_INIT_OS == 2
CMD_RENDER_FRAME == 16
CMD_WRAM_SWAP == 17
CMD_OPEN_WINDOW == 32
CMD_CLOSE_WINDOW == 33
CMD_MOVE_WINDOW == 34
CMD_CD_PLAY == 64
CMD_MOUSE_EVENT == 96

STATUS_IDLE == 0
STATUS_BUSY == 1
STATUS_ACK == 2
STATUS_DONE == 3
STATUS_ERROR == 255

SUB_STATE_RESET == 0
SUB_STATE_BOOTING == 1
SUB_STATE_READY == 2
SUB_STATE_RENDERING == 3
SUB_STATE_CRASHED == 255

INPUT_EVT_NONE == 0
INPUT_EVT_MOUSE_MOVE == 1
INPUT_EVT_MOUSE_DOWN == 2
INPUT_EVT_MOUSE_UP == 3
INPUT_EVT_MOUSE_DRAG == 4

WM_MAX_WINDOWS == 16
WM_MAX_DIRTY_RECTS == 32
WM_SCREEN_W == 320
WM_SCREEN_H == 224
WM_MENUBAR_H == 20

WM_PART_NONE == 0
WM_PART_MENUBAR == 1
WM_PART_DESKTOP == 2
WM_PART_DRAG == 3
WM_PART_CONTENT == 4
WM_PART_CLOSE == 5
WM_PART_GROW == 6

WM_STYLE_DOCUMENT == 0
WM_STYLE_DIALOG == 1
WM_STYLE_PLAIN == 2
WM_STYLE_SHADOW == 3
WM_STYLE_ALERT == 4

\* The WF_* window flags of wm.h (WF_ is reserved in TLA+).
WFL_VISIBLE == 1
WFL_HILITED == 2
WFL_HAS_CLOSE == 4
WFL_HAS_GROW == 8
WFL_MODAL == 16

BORDER_W == 1
TITLEBAR_H == 18
CLOSE_SIZE == 12

CURSOR_W == 11
CURSOR_H == 16

\* The null pointer (Window *)0.
NULL == -1

(***************************************************************************)
(* Machine integers                                                        *)
(***************************************************************************)
U8(x) == x % 256
U16(x) == x % 65536
I16(x) == ((x + 32768) % 65536) - 32768

HasFlag(f, b) == (f \div b) % 2 = 1
SetFlag(f, b) == IF HasFlag(f, b) THEN f ELSE f + b
ClearFlag(f, b) == IF HasFlag(f, b) THEN f - b ELSE f

(***************************************************************************)
(* Rectangles (wm.c rect helpers)                                          *)
(***************************************************************************)
Rect(l, t, r, b) == [left |-> l, top |-> t, right |-> r, bottom |-> b]
ZeroRect == Rect(0, 0, 0, 0)

rect_contains_point(r, pt) ==
    /\ pt.x >= r.left
    /\ pt.x < r.right
    /\ pt.y >= r.top
    /\ pt.y < r.bottom

rect_intersects(a, b) ==
    ~(a.right <= b.left \/ a.left >= b.right \/ a.bottom <= b.top \/ a.top >= b.bottom)

rect_union(a, b) ==
    Rect(IF a.left < b.left THEN a.left ELSE b.left,
         IF a.top < b.top THEN a.top ELSE b.top,
         IF a.right > b.right THEN a.right ELSE b.right,
         IF a.bottom > b.bottom THEN a.bottom ELSE b.bottom)

\* A clip that keeps the rectangle as it is.
rect_no_clip(r) == r

rect_clip_to_screen(r) ==
    Rect(IF r.left < 0 THEN 0 ELSE r.left,
         IF r.top < 0 THEN 0 ELSE r.top,
         IF r.right > WM_SCREEN_W THEN WM_SCREEN_W ELSE r.right,
         IF r.bottom > WM_SCREEN_H THEN WM_SCREEN_H ELSE r.bottom)

(***************************************************************************)
(* Window records and the window manager state (wm.h)                      *)
(***************************************************************************)
ZeroWindow ==
    [id |-> 0, style |-> 0, flags |-> 0,
     frame |-> ZeroRect, content |-> ZeroRect, titleBar |-> ZeroRect,
     above |-> NULL, below |-> NULL,
     drawProc |-> "NULL", clickProc |-> "NULL", dragProc |-> "NULL"]

ZeroDirty == [rect |-> ZeroRect, valid |-> 0]

\* WM_Init: memset(&wm, 0, ...) then the defaults.
WM_Init ==
    [pool |-> [i \in 0..(WM_MAX_WINDOWS - 1) |-> ZeroWindow],
     poolUsed |-> [i \in 0..(WM_MAX_WINDOWS - 1) |-> 0],
     windowCount |-> 0,
     topWindow |-> NULL, bottomWindow |-> NULL, activeWindow |-> NULL,
     dirtyRects |-> [i \in 0..(WM_MAX_DIRTY_RECTS - 1) |-> ZeroDirty],
     dirtyCount |-> 0,
     desktopPattern |-> 1, menuBarDirty |-> 0]

\* Sub-rectangles with a title bar for every style.
compute_window_rects_titled(win) ==
    LET tb == Rect(I16(win.frame.left + BORDER_W), I16(win.frame.top + BORDER_W),
                   I16(win.frame.right - BORDER_W),
                   I16(win.frame.top + BORDER_W + TITLEBAR_H))
        ct == Rect(I16(win.frame.left + BORDER_W), I16(tb.bottom + 1),
                   I16(win.frame.right - BORDER_W), I16(win.frame.bottom - BORDER_W))
    IN  [win EXCEPT !.titleBar = tb, !.content = ct]

\* Every sum is stored in an int16_t field of the Window.
compute_window_rects(win) ==
    LET tb == Rect(I16(win.frame.left + BORDER_W), I16(win.frame.top + BORDER_W),
                   I16(win.frame.right - BORDER_W),
                   I16(win.frame.top + BORDER_W + TITLEBAR_H))
        ct == Rect(I16(win.frame.left + BORDER_W), I16(tb.bottom + 1),
                   I16(win.frame.right - BORDER_W), I16(win.frame.bottom - BORDER_W))
        plain == win.style = WM_STYLE_PLAIN \/ win.style = WM_STYLE_SHADOW
    IN  IF plain
        THEN [win EXCEPT !.titleBar = [tb EXCEPT !.top = 0, !.bottom = 0],
                         !.content = [ct EXCEPT !.top = I16(win.frame.top + BORDER_W)]]
        ELSE [win EXCEPT !.titleBar = tb, !.content = ct]

FreeSlots(w) == {i \in 0..(WM_MAX_WINDOWS - 1) : w.poolUsed[i] = 0}

\* A slot choice that falls back to slot 0 when no slot is free.
pool_slot_reuse(w) ==
    IF FreeSlots(w) = {} THEN 0
    ELSE CHOOSE i \in FreeSlots(w) : \A j \in FreeSlots(w) : i <= j

\* The slot pool_alloc takes: the lowest free one, NULL when the pool is full.
pool_slot(w) ==
    IF FreeSlots(w) = {} THEN NULL
    ELSE CHOOSE i \in FreeSlots(w) : \A j \in FreeSlots(w) : i <= j

pool_alloc(w) ==
    LET i == pool_slot(w)
    IN  IF i = NULL THEN w
        ELSE [w EXCEPT !.poolUsed[i] = 1,
                       !.windowCount = U8(w.windowCount + 1),
                       !.pool[i] = [ZeroWindow EXCEPT !.id = i]]

\* A release that counts the window out but leaves its slot marked used.
pool_free_count_only(w, win) ==
    IF win # NULL /\ w.pool[win].id < WM_MAX_WINDOWS
    THEN [w EXCEPT !.windowCount = U8(w.windowCount + 255)]
    ELSE w

pool_free(w, win) ==
    IF win # NULL /\ w.pool[win].id < WM_MAX_WINDOWS
    THEN [w EXCEPT !.poolUsed[w.pool[win].id] = 0,
                   !.windowCount = U8(w.windowCount + 255)]
    ELSE w

\* An unlink that leaves bottomWindow alone when the bottom window goes.
zorder_unlink_top_only(w, win) ==
    LET UnlinkAbove(v) ==
            IF v.pool[win].above # NULL
            THEN [v EXCEPT !.pool[v.pool[win].above].below = v.pool[win].below]
            ELSE [v EXCEPT !.topWindow = v.pool[win].below]
        UnlinkBelow(v) ==
            IF v.pool[win].below # NULL
            THEN [v EXCEPT !.pool[v.pool[win].below].above = v.pool[win].above]
            ELSE v
        Clear(v) == [v EXCEPT !.pool[win].above = NULL, !.pool[win].below = NULL]
    IN  Clear(UnlinkBelow(UnlinkAbove(w)))

zorder_unlink(w, win) ==
    LET UnlinkAbove(v) ==
            IF v.pool[win].above # NULL
            THEN [v EXCEPT !.pool[v.pool[win].above].below = v.pool[win].below]
            ELSE [v EXCEPT !.topWindow = v.pool[win].below]
        UnlinkBelow(v) ==
            IF v.pool[win].below # NULL
            THEN [v EXCEPT !.pool[v.pool[win].below].above = v.pool[win].above]
            ELSE [v EXCEPT !.bottomWindow = v.pool[win].above]
        Clear(v) == [v EXCEPT !.pool[win].above = NULL, !.pool[win].below = NULL]
    IN  Clear(UnlinkBelow(UnlinkAbove(w)))

zorder_push_top(w, win) ==
    LET Link(v) == [v EXCEPT !.pool[win].above = NULL, !.pool[win].below = v.topWindow]
        LinkOldTop(v) ==
            IF v.topWindow # NULL THEN [v EXCEPT !.pool[v.topWindow].above = win] ELSE v
        SetTop(v) == [v EXCEPT !.topWindow = win]
        SetBottom(v) == IF v.bottomWindow = NULL THEN [v EXCEPT !.bottomWindow = win] ELSE v
    IN  SetBottom(SetTop(LinkOldTop(Link(w))))

(***************************************************************************)
(* Dirty rectangle accumulator                                             *)
(***************************************************************************)
\* A search that finds no entry to merge with.
MergeIndexNone(w, r) == NULL

\* Index of the first valid entry below dirtyCount intersecting r, or NULL.
MergeIndex(w, r) ==
    LET hits == {i \in 0..(w.dirtyCount - 1) :
                    w.dirtyRects[i].valid # 0 /\ rect_intersects(w.dirtyRects[i].rect, r)}
    IN  IF hits = {} THEN NULL ELSE CHOOSE i \in hits : \A j \in hits : i <= j

\* An accumulator that drops the rectangle when all 32 entries are in use.
WM_InvalidateRectNoOverflow(w, r) ==
    LET Accumulate(clipped, m) ==
            IF clipped.left >= clipped.right \/ clipped.top >= clipped.bottom THEN w
            ELSE IF m # NULL
            THEN [w EXCEPT !.dirtyRects[m].rect = rect_union(w.dirtyRects[m].rect, clipped)]
            ELSE IF w.dirtyCount < WM_MAX_DIRTY_RECTS
            THEN [w EXCEPT !.dirtyRects[w.dirtyCount] = [rect |-> clipped, valid |-> 1],
                           !.dirtyCount = w.dirtyCount + 1]
            ELSE w
    IN  Accumulate(rect_clip_to_screen(r), MergeIndex(w, rect_clip_to_screen(r)))

WM_InvalidateRect(w, r) ==
    LET Accumulate(clipped, m) ==
            IF clipped.left >= clipped.right \/ clipped.top >= clipped.bottom THEN w
            ELSE IF m # NULL
            THEN [w EXCEPT !.dirtyRects[m].rect = rect_union(w.dirtyRects[m].rect, clipped)]
            ELSE IF w.dirtyCount < WM_MAX_DIRTY_RECTS
            THEN [w EXCEPT !.dirtyRects[w.dirtyCount] = [rect |-> clipped, valid |-> 1],
                           !.dirtyCount = w.dirtyCount + 1]
            ELSE [w EXCEPT !.dirtyRects[0].rect = rect_union(w.dirtyRects[0].rect, clipped)]
    IN  Accumulate(rect_clip_to_screen(r), MergeIndex(w, rect_clip_to_screen(r)))

WM_InvalidateWindow(w, win) ==
    IF win # NULL THEN WM_InvalidateRect(w, w.pool[win].frame) ELSE w

WM_BeginUpdate(w) == w.dirtyCount

\* WM_GetDirtyRect: the entry index, NULL when index >= dirtyCount.
WM_GetDirtyRect(w, index) == IF index < w.dirtyCount THEN index ELSE NULL

\* An update end that resets the count and leaves the valid flags.
WM_EndUpdateCountOnly(w) == [w EXCEPT !.dirtyCount = 0, !.menuBarDirty = 0]

WM_EndUpdate(w) ==
    [w EXCEPT !.dirtyRects = [i \in 0..(WM_MAX_DIRTY_RECTS - 1) |->
                                 [w.dirtyRects[i] EXCEPT !.valid = 0]],
              !.dirtyCount = 0,
              !.menuBarDirty = 0]

(***************************************************************************)
(* Window lifecycle and z-order                                            *)
(***************************************************************************)
\* The pointer WM_NewWindow returns.
WM_NewWindowResult(w) == pool_slot(w)

WM_NewWindow(w, bounds, style, flags) ==
    LET win == pool_slot(w)
        fl == LET f1 == IF style = WM_STYLE_DOCUMENT THEN SetFlag(flags, WFL_HAS_CLOSE) ELSE flags
              IN  IF style = WM_STYLE_DIALOG \/ style = WM_STYLE_ALERT
                  THEN SetFlag(f1, WFL_MODAL) ELSE f1
        SetUp(v) ==
            [v EXCEPT !.pool[win] = compute_window_rects([v.pool[win] EXCEPT
                                        !.frame = rect_clip_to_screen(bounds),
                                        !.style = style,
                                        !.flags = fl])]
        Deactivate(v) ==
            IF v.activeWindow # NULL
            THEN [v EXCEPT !.pool[v.activeWindow].flags =
                               ClearFlag(v.pool[v.activeWindow].flags, WFL_HILITED)]
            ELSE v
        Activate(v) == [v EXCEPT !.activeWindow = win,
                                 !.pool[win].flags = SetFlag(v.pool[win].flags, WFL_HILITED)]
        Invalidate(v) == IF HasFlag(flags, WFL_VISIBLE) THEN WM_InvalidateWindow(v, win) ELSE v
    IN  IF win = NULL THEN w
        ELSE Invalidate(Activate(Deactivate(zorder_push_top(SetUp(pool_alloc(w)), win))))

\* A dispose that leaves activeWindow as it was.
WM_DisposeKeepActive(w, win) ==
    IF win = NULL THEN w
    ELSE pool_free(zorder_unlink(WM_InvalidateRect(w, w.pool[win].frame), win), win)

WM_DisposeWindow(w, win) ==
    LET Reactivate(v) ==
            IF v.activeWindow = win
            THEN (IF v.topWindow # NULL
                  THEN [v EXCEPT !.activeWindow = v.topWindow,
                                 !.pool[v.topWindow].flags =
                                     SetFlag(v.pool[v.topWindow].flags, WFL_HILITED)]
                  ELSE [v EXCEPT !.activeWindow = v.topWindow])
            ELSE v
    IN  IF win = NULL THEN w
        ELSE pool_free(Reactivate(zorder_unlink(WM_InvalidateRect(w, w.pool[win].frame), win)),
                       win)

WM_SelectWindow(w, win) ==
    LET Deactivate(v) ==
            IF v.activeWindow # NULL
            THEN WM_InvalidateWindow(
                     [v EXCEPT !.pool[v.activeWindow].flags =
                         ClearFlag(v.pool[v.activeWindow].flags, WFL_HILITED)],
                     v.activeWindow)
            ELSE v
        Activate(v) == [v EXCEPT !.activeWindow = win,
                                 !.pool[win].flags = SetFlag(v.pool[win].flags, WFL_HILITED)]
    IN  IF win = NULL \/ win = w.topWindow THEN w
        ELSE WM_InvalidateWindow(
                 Activate(zorder_push_top(zorder_unlink(Deactivate(w), win), win)), win)

WM_SendToBack(w, win) ==
    LET Link(v) == [v EXCEPT !.pool[win].below = NULL, !.pool[win].above = v.bottomWindow]
        LinkOldBottom(v) ==
            IF v.bottomWindow # NULL THEN [v EXCEPT !.pool[v.bottomWindow].below = win] ELSE v
        SetBottom(v) == [v EXCEPT !.bottomWindow = win]
        SetTop(v) == IF v.topWindow = NULL THEN [v EXCEPT !.topWindow = win] ELSE v
    IN  IF win = NULL \/ win = w.bottomWindow THEN w
        ELSE WM_InvalidateWindow(SetTop(SetBottom(LinkOldBottom(Link(zorder_unlink(w, win))))),
                                 win)

WM_ShowWindow(w, win) ==
    IF win = NULL \/ HasFlag(w.pool[win].flags, WFL_VISIBLE) THEN w
    ELSE WM_InvalidateWindow(
             [w EXCEPT !.pool[win].flags = SetFlag(w.pool[win].flags, WFL_VISIBLE)], win)

WM_HideWindow(w, win) ==
    IF win = NULL \/ ~HasFlag(w.pool[win].flags, WFL_VISIBLE) THEN w
    ELSE WM_InvalidateRect(
             [w EXCEPT !.pool[win].flags = ClearFlag(w.pool[win].flags, WFL_VISIBLE)],
             w.pool[win].frame)

\* A move that invalidates the new frame only.
WM_MoveWindowNewOnly(w, win, x, y) ==
    IF win = NULL THEN w
    ELSE LET oldFrame == w.pool[win].frame
             dx == I16(x - oldFrame.left)
             dy == I16(y - oldFrame.top)
             moved == Rect(I16(oldFrame.left + dx), I16(oldFrame.top + dy),
                           I16(oldFrame.right + dx), I16(oldFrame.bottom + dy))
             rec == compute_window_rects(
                        [w.pool[win] EXCEPT !.frame = rect_clip_to_screen(moved)])
             w1 == [w EXCEPT !.pool[win] = rec]
         IN  WM_InvalidateWindow(w1, win)

WM_MoveWindow(w, win, x, y) ==
    IF win = NULL THEN w
    ELSE LET oldFrame == w.pool[win].frame
             dx == I16(x - oldFrame.left)
             dy == I16(y - oldFrame.top)
             moved == Rect(I16(oldFrame.left + dx), I16(oldFrame.top + dy),
                           I16(oldFrame.right + dx), I16(oldFrame.bottom + dy))
             rec == compute_window_rects(
                        [w.pool[win] EXCEPT !.frame = rect_clip_to_screen(moved)])
             w1 == [w EXCEPT !.pool[win] = rec]
         IN  WM_InvalidateWindow(WM_InvalidateRect(w1, oldFrame), win)

WM_SizeWindow(w, win, wd, ht) ==
    IF win = NULL THEN w
    ELSE LET oldFrame == w.pool[win].frame
             sized == [oldFrame EXCEPT !.right = I16(oldFrame.left + wd),
                                       !.bottom = I16(oldFrame.top + ht)]
             rec == compute_window_rects(
                        [w.pool[win] EXCEPT !.frame = rect_clip_to_screen(sized)])
             w1 == [w EXCEPT !.pool[win] = rec]
         IN  WM_InvalidateWindow(WM_InvalidateRect(w1, oldFrame), win)

\* WM_SetTitle: the title text is not part of the state kept here; the call
\* leaves the title bar in the dirty accumulator.
WM_SetTitle(w, win, title) ==
    IF win = NULL \/ title = NULL THEN w
    ELSE WM_InvalidateRect(w, w.pool[win].titleBar)

WM_SetDesktopPattern(w, pattern) ==
    IF pattern # w.desktopPattern
    THEN WM_InvalidateRect([w EXCEPT !.desktopPattern = pattern],
                           Rect(0, WM_MENUBAR_H, WM_SCREEN_W, WM_SCREEN_H))
    ELSE w

\* A lookup that does not test whether the slot is in use.
WM_GetWindowByIdAny(w, id) == IF id < WM_MAX_WINDOWS THEN id ELSE NULL

WM_GetWindowById(w, id) ==
    IF id < WM_MAX_WINDOWS /\ w.poolUsed[id] # 0 THEN id ELSE NULL

WM_GetBottomWindow(w) == w.bottomWindow
WM_GetActiveWindow(w) == w.activeWindow

(***************************************************************************)
(* Hit testing (WM_FindWindow / WM_HitTest)                                *)
(***************************************************************************)
Pt(px, py) == [x |-> px, y |-> py]

\* The tests with the title bar tried before the close box.
WindowPartAtTitleFirst(win, pt) ==
    LET closeBox == Rect(win.titleBar.left + 4, win.titleBar.top + 3,
                         win.titleBar.left + 4 + CLOSE_SIZE, win.titleBar.top + 3 + CLOSE_SIZE)
        growBox == Rect(win.frame.right - 1 - 12, win.frame.bottom - 1 - 12,
                        win.frame.right - 1, win.frame.bottom - 1)
    IN  IF rect_contains_point(win.titleBar, pt) THEN WM_PART_DRAG
        ELSE IF /\ HasFlag(win.flags, WFL_HAS_CLOSE)
                /\ rect_contains_point(closeBox, pt)
        THEN WM_PART_CLOSE
        ELSE IF HasFlag(win.flags, WFL_HAS_GROW) /\ rect_contains_point(growBox, pt)
        THEN WM_PART_GROW
        ELSE IF rect_contains_point(win.content, pt) THEN WM_PART_CONTENT
        ELSE WM_PART_DRAG

\* The part of one visible window whose frame contains pt.
WindowPartAt(win, pt) ==
    LET closeBox == Rect(win.titleBar.left + 4, win.titleBar.top + 3,
                         win.titleBar.left + 4 + CLOSE_SIZE, win.titleBar.top + 3 + CLOSE_SIZE)
        growBox == Rect(win.frame.right - 1 - 12, win.frame.bottom - 1 - 12,
                        win.frame.right - 1, win.frame.bottom - 1)
    IN  IF /\ HasFlag(win.flags, WFL_HAS_CLOSE)
           /\ rect_contains_point(win.titleBar, pt)
           /\ rect_contains_point(closeBox, pt)
        THEN WM_PART_CLOSE
        ELSE IF HasFlag(win.flags, WFL_HAS_GROW) /\ rect_contains_point(growBox, pt)
        THEN WM_PART_GROW
        ELSE IF rect_contains_point(win.titleBar, pt) THEN WM_PART_DRAG
        ELSE IF rect_contains_point(win.content, pt) THEN WM_PART_CONTENT
        ELSE WM_PART_DRAG

\* A walk that stops at the first window whose frame contains pt, hidden
\* or not.
RECURSIVE FindFromAny(_, _, _)
FindFromAny(w, win, pt) ==
    IF win = NULL THEN [part |-> WM_PART_DESKTOP, window |-> NULL]
    ELSE IF rect_contains_point(w.pool[win].frame, pt)
    THEN [part |-> WindowPartAt(w.pool[win], pt), window |-> win]
    ELSE FindFromAny(w, w.pool[win].below, pt)

RECURSIVE FindFrom(_, _, _)
FindFrom(w, win, pt) ==
    IF win = NULL THEN [part |-> WM_PART_DESKTOP, window |-> NULL]
    ELSE IF ~HasFlag(w.pool[win].flags, WFL_VISIBLE) THEN FindFrom(w, w.pool[win].below, pt)
    ELSE IF rect_contains_point(w.pool[win].frame, pt)
    THEN [part |-> WindowPartAt(w.pool[win], pt), window |-> win]
    ELSE FindFrom(w, w.pool[win].below, pt)

WM_FindWindow(w, pt) ==
    IF pt.y < WM_MENUBAR_H THEN [part |-> WM_PART_MENUBAR, window |-> NULL]
    ELSE FindFrom(w, w.topWindow, pt)

WM_HitTest(w, pt) == WM_FindWindow(w, pt)

(***************************************************************************)
(* Menu bar (menubar.c), with the menus os_init installs                   *)
(***************************************************************************)
MENUBAR_HEIGHT == 20
MENUBAR_PADDING == 8
MENUBAR_FIRST_X == 10
MENU_ITEM_HEIGHT == 14
MENU_SEPARATOR_H == 8
MENU_PADDING_X == 8
MENU_PADDING_Y == 2
MENU_MIN_WIDTH == 80
MIF_NONE == 0
MIF_SEPARATOR == 1
MIF_DISABLED == 2

\* Glyph advance of the fixed-width system font.
FontAdvance == 6
SysFont_StringWidth(len) == len * FontAdvance

Item(len, cmd, fl) == [textLen |-> len, commandID |-> cmd, flags |-> fl]
Separator == Item(0, 0, MIF_SEPARATOR)

\* Title lengths and items of File, Edit, Apps as added in os_init.
MenuTitleLen == <<4, 4, 4>>
MenuItems ==
    << <<Item(3, 257, MIF_NONE), Item(4, 258, MIF_NONE), Item(5, 259, MIF_NONE),
         Separator, Item(4, 260, MIF_NONE)>>,
       <<Item(4, 513, MIF_DISABLED), Separator, Item(3, 514, MIF_NONE),
         Item(4, 515, MIF_NONE), Item(5, 516, MIF_NONE)>>,
       <<Item(10, 769, MIF_NONE), Item(7, 770, MIF_NONE), Item(5, 771, MIF_NONE)>> >>
MenuCount == Len(MenuTitleLen)

\* MenuBar_AddMenu: title position and width (menu indices 0-based as in C).
RECURSIVE MenuTitleX(_)
MenuTitleWidth(i) == SysFont_StringWidth(MenuTitleLen[i + 1]) + MENUBAR_PADDING
MenuTitleX(i) ==
    IF i = 0 THEN MENUBAR_FIRST_X
    ELSE MenuTitleX(i - 1) + MenuTitleWidth(i - 1) + MENUBAR_PADDING

MenuBar_Init == [activeMenu |-> -1, activeItem |-> -1, isOpen |-> 0]
MenuBar_Close(mb) == [activeMenu |-> -1, activeItem |-> -1, isOpen |-> 0]
MenuBar_IsTracking(mb) == mb.isOpen

\* First menu whose title spans x, or -1.
MenuTitleAt(x) ==
    LET hits == {i \in 0..(MenuCount - 1) :
                    x >= MenuTitleX(i) - 4 /\ x < MenuTitleX(i) + MenuTitleWidth(i)}
    IN  IF hits = {} THEN -1 ELSE CHOOSE i \in hits : \A j \in hits : i <= j

MenuBar_HandleMouseDown(mb, x, y) ==
    IF y >= MENUBAR_HEIGHT
    THEN (IF mb.isOpen # 0 THEN MenuBar_Close(mb) ELSE mb)
    ELSE IF MenuTitleAt(x) # -1
    THEN [activeMenu |-> MenuTitleAt(x), activeItem |-> -1, isOpen |-> 1]
    ELSE mb

RECURSIVE MaxItemWidth(_, _)
MaxItemWidth(items, acc) ==
    IF items = <<>> THEN acc
    ELSE LET it == Head(items)
             wd == SysFont_StringWidth(it.textLen) + MENU_PADDING_X * 2
         IN  IF HasFlag(it.flags, MIF_SEPARATOR) \/ wd <= acc
             THEN MaxItemWidth(Tail(items), acc)
             ELSE MaxItemWidth(Tail(items), wd)

compute_dropdown_width(m) == MaxItemWidth(MenuItems[m + 1], MENU_MIN_WIDTH)

ItemHeight(it) == IF HasFlag(it.flags, MIF_SEPARATOR) THEN MENU_SEPARATOR_H ELSE MENU_ITEM_HEIGHT

\* Index of the item of menu m whose band contains y (scanning from itemY), or -1.
RECURSIVE ItemAt(_, _, _, _)
ItemAt(m, i, itemY, y) ==
    IF i >= Len(MenuItems[m + 1]) THEN -1
    ELSE LET it == MenuItems[m + 1][i + 1]
         IN  IF y >= itemY /\ y < itemY + ItemHeight(it)
             THEN (IF HasFlag(it.flags, MIF_SEPARATOR) \/ HasFlag(it.flags, MIF_DISABLED)
                   THEN -1 ELSE i)
             ELSE ItemAt(m, i + 1, itemY + ItemHeight(it), y)

MenuBar_HandleMouseMove(mb, x, y) ==
    IF mb.isOpen = 0 \/ mb.activeMenu < 0 THEN mb
    ELSE IF y < MENUBAR_HEIGHT
    THEN (IF MenuTitleAt(x) # -1
          THEN (IF mb.activeMenu # MenuTitleAt(x)
                THEN [mb EXCEPT !.activeMenu = MenuTitleAt(x), !.activeItem = -1]
                ELSE mb)
          ELSE [mb EXCEPT !.activeItem = -1])
    ELSE LET dropX == MenuTitleX(mb.activeMenu) - 4
             dropW == compute_dropdown_width(mb.activeMenu)
         IN  IF x < dropX \/ x >= dropX + dropW
             THEN [mb EXCEPT !.activeItem = -1]
             ELSE [mb EXCEPT !.activeItem =
                       ItemAt(mb.activeMenu, 0, MENUBAR_HEIGHT + MENU_PADDING_Y, y)]

\* The commandID MenuBar_HandleMouseUp returns (0 when nothing is selected).
MenuBar_Selection(mb) ==
    IF mb.isOpen # 0 /\ mb.activeMenu >= 0 /\ mb.activeItem >= 0
    THEN LET it == MenuItems[mb.activeMenu + 1][mb.activeItem + 1]
         IN  IF ~HasFlag(it.flags, MIF_DISABLED) /\ ~HasFlag(it.flags, MIF_SEPARATOR)
             THEN it.commandID ELSE 0
    ELSE 0

(***************************************************************************)
(* Sub CPU kernel state outside the window manager (sub.c statics, the     *)
(* bundled applications' window handles)                                   *)
(***************************************************************************)
SubInit ==
    [cursorX |-> 160, cursorY |-> 112, prevCursorX |-> 160, prevCursorY |-> 112,
     dragWindow |-> NULL, dragOffsetX |-> 0, dragOffsetY |-> 0, windowCounter |-> 0]

AppsInit == [paintWindow |-> NULL, vkbdWindow |-> NULL, noteWindow |-> NULL, charCallback |-> 0]

\* st bundles the Sub CPU data a command handler works on.
Kernel(w, mb, sb, ap) == [wm |-> w, mb |-> mb, sub |-> sb, apps |-> ap]

SetProcs(w, win, draw, click, drag) ==
    IF win = NULL THEN w
    ELSE [w EXCEPT !.pool[win].drawProc = draw,
                   !.pool[win].clickProc = click,
                   !.pool[win].dragProc = drag]

Calc_Open(st) ==
    LET bounds == Rect(60, 40, 60 + 144 + 2, 40 + 146 + 22)
        win == WM_NewWindowResult(st.wm)
        w1 == WM_NewWindow(st.wm, bounds, WM_STYLE_DOCUMENT, WFL_VISIBLE + WFL_HAS_CLOSE)
    IN  [st EXCEPT !.wm = SetProcs(w1, win, "Calc_Draw", "Calc_Click", "NULL")]

\* memset(&vkbdState, 0, ...) clears the character callback too.
VKBD_Open(st) ==
    IF st.apps.vkbdWindow # NULL THEN st
    ELSE LET bounds == Rect(20, 120, 20 + 208 + 2, 120 + 98 + 22)
             win == WM_NewWindowResult(st.wm)
             w1 == WM_NewWindow(st.wm, bounds, WM_STYLE_DOCUMENT, WFL_VISIBLE + WFL_HAS_CLOSE)
         IN  [st EXCEPT !.wm = SetProcs(w1, win, "VKBD_Draw", "VKBD_Click", "NULL"),
                        !.apps.vkbdWindow = win,
                        !.apps.charCallback = 0]

Notepad_Open(st) ==
    LET bounds == Rect(10, 24, 240, 120)
        win == WM_NewWindowResult(st.wm)
        Keyboard(st1) ==
            IF win = NULL THEN st1
            ELSE [VKBD_Open(st1) EXCEPT !.apps.charCallback = 1]
    IN  Keyboard([st EXCEPT
                     !.wm = SetProcs(WM_NewWindow(st.wm, bounds, WM_STYLE_DOCUMENT,
                                                  WFL_VISIBLE + WFL_HAS_CLOSE + WFL_HAS_GROW),
                                     win, "Notepad_Draw", "Notepad_Click", "NULL"),
                     !.apps.noteWindow = win])

Paint_Open(st) ==
    IF st.apps.paintWindow # NULL THEN st
    ELSE LET bounds == Rect(15, 25, 15 + 264, 25 + 174)
             win == WM_NewWindowResult(st.wm)
             w1 == WM_NewWindow(st.wm, bounds, WM_STYLE_DOCUMENT, WFL_VISIBLE + WFL_HAS_CLOSE)
         IN  [st EXCEPT !.wm = SetProcs(w1, win, "Paint_Draw", "Paint_Click", "Paint_Drag"),
                        !.apps.paintWindow = win]

\* A window's click/drag callback.  What the application does with the point
\* is outside the kernel: cb.inv says whether it invalidates its window,
\* cb.key whether the virtual keyboard delivers a character to the notepad.
AppCallback(st, proc, win, cb) ==
    LET Own(s) == IF cb.inv THEN [s EXCEPT !.wm = WM_InvalidateWindow(s.wm, win)] ELSE s
        Key(s) == IF cb.key /\ s.apps.charCallback # 0
                  THEN [s EXCEPT !.wm = WM_InvalidateWindow(s.wm, s.apps.noteWindow)]
                  ELSE s
    IN  CASE proc = "Notepad_Click" -> [st EXCEPT !.wm = WM_InvalidateWindow(st.wm, win)]
          [] proc \in {"Calc_Click", "Paint_Click", "Paint_Drag"} -> Own(st)
          [] proc = "VKBD_Click" -> Own(Key(st))
          [] OTHER -> st

(***************************************************************************)
(* Mouse event decoding and dispatch (input.h, sub.c CMD_MOUSE_EVENT)      *)
(***************************************************************************)
Input_DecodeMouseEvent(p) ==
    [x |-> I16(p[1]), y |-> I16(p[2]),
     type |-> U8(p[3] \div 256), buttons |-> U8(p[3]),
     dx |-> I16(p[4]), dy |-> 0]

\* File > New
MenuNewWindow(st) ==
    LET c == U8(st.sub.windowCounter + 1)
        l == 30 + ((c * 12) % 120)
        t == 40 + ((c * 10) % 80)
    IN  [st EXCEPT !.sub.windowCounter = c,
                   !.wm = WM_NewWindow(st.wm, Rect(l, t, l + 180, t + 120),
                                       WM_STYLE_DOCUMENT, WFL_VISIBLE + WFL_HAS_GROW)]

MenuCommand(st, commandID) ==
    CASE commandID = 257 -> MenuNewWindow(st)
      [] commandID = 259 ->
            IF WM_GetActiveWindow(st.wm) # NULL
            THEN [st EXCEPT !.wm = WM_DisposeWindow(st.wm, WM_GetActiveWindow(st.wm))]
            ELSE st
      [] commandID = 769 -> Calc_Open(st)
      [] commandID = 770 -> Notepad_Open(st)
      [] commandID = 771 -> Paint_Open(st)
      [] OTHER -> st

MouseDown(st, evt, cb) ==
    LET Click(s, win) ==
            IF s.wm.pool[win].clickProc # "NULL"
            THEN AppCallback(s, s.wm.pool[win].clickProc, win, cb)
            ELSE s
        BeginDrag(s, win) ==
            [s EXCEPT !.sub.dragWindow = win,
                      !.sub.dragOffsetX = I16(evt.x - s.wm.pool[win].frame.left),
                      !.sub.dragOffsetY = I16(evt.y - s.wm.pool[win].frame.top)]
        On(hit) ==
            CASE hit.part = WM_PART_CONTENT /\ hit.window # NULL ->
                    Click([st EXCEPT !.wm = WM_SelectWindow(st.wm, hit.window)], hit.window)
              [] hit.part = WM_PART_DRAG /\ hit.window # NULL ->
                    BeginDrag([st EXCEPT !.wm = WM_SelectWindow(st.wm, hit.window)], hit.window)
              [] hit.part = WM_PART_CLOSE /\ hit.window # NULL ->
                    [st EXCEPT !.wm = WM_DisposeWindow(st.wm, hit.window)]
              [] hit.part = WM_PART_MENUBAR ->
                    [st EXCEPT !.mb = MenuBar_HandleMouseDown(st.mb, evt.x, evt.y)]
              [] OTHER -> st
    IN  On(WM_HitTest(st.wm, Pt(evt.x, evt.y)))

MouseDrag(st, evt, cb) ==
    IF MenuBar_IsTracking(st.mb) # 0
    THEN [st EXCEPT !.mb = MenuBar_HandleMouseMove(st.mb, evt.x, evt.y)]
    ELSE IF st.sub.dragWindow # NULL
    THEN LET newX == I16(evt.x - st.sub.dragOffsetX)
             newY0 == I16(evt.y - st.sub.dragOffsetY)
             newY == IF newY0 < WM_MENUBAR_H THEN WM_MENUBAR_H ELSE newY0
         IN  [st EXCEPT !.wm = WM_MoveWindow(st.wm, st.sub.dragWindow, newX, newY)]
    ELSE LET active == WM_GetActiveWindow(st.wm)
         IN  IF active # NULL /\ st.wm.pool[active].dragProc # "NULL"
             THEN AppCallback(st, st.wm.pool[active].dragProc, active, cb)
             ELSE st

MouseUp(st, evt) ==
    LET EndDrag(s) == [s EXCEPT !.sub.dragWindow = NULL]
    IN  IF MenuBar_IsTracking(st.mb) # 0
        THEN EndDrag(MenuCommand([st EXCEPT !.mb = MenuBar_Close(st.mb)],
                                 MenuBar_Selection(st.mb)))
        ELSE EndDrag(st)

\* The CMD_MOUSE_EVENT case of process_command, up to (not including) sub_done.
MouseEvent(st, p, cb) ==
    LET evt == Input_DecodeMouseEvent(p)
        MoveCursor(s) ==
            [s EXCEPT !.sub.prevCursorX = s.sub.cursorX,
                      !.sub.prevCursorY = s.sub.cursorY,
                      !.sub.cursorX = evt.x,
                      !.sub.cursorY = evt.y]
        CursorRect(x, y) == Rect(x, y, I16(x + CURSOR_W), I16(y + CURSOR_H))
        Invalidate(s) ==
            [s EXCEPT !.wm = WM_InvalidateRect(
                                 WM_InvalidateRect(s.wm, CursorRect(s.sub.prevCursorX,
                                                                    s.sub.prevCursorY)),
                                 CursorRect(s.sub.cursorX, s.sub.cursorY))]
        Handle(s) ==
            CASE evt.type = INPUT_EVT_MOUSE_DOWN -> MouseDown(s, evt, cb)
              [] evt.type = INPUT_EVT_MOUSE_MOVE ->
                    IF MenuBar_IsTracking(s.mb) # 0
                    THEN [s EXCEPT !.mb = MenuBar_HandleMouseMove(s.mb, evt.x, evt.y)]
                    ELSE s
              [] evt.type = INPUT_EVT_MOUSE_DRAG -> MouseDrag(s, evt, cb)
              [] evt.type = INPUT_EVT_MOUSE_UP -> MouseUp(s, evt)
              [] OTHER -> s
    IN  Handle(Invalidate(MoveCursor(st)))

(***************************************************************************)
(* Window commands of the dispatcher                                       *)
(***************************************************************************)
\* CMD_OPEN_WINDOW: bounds from the four parameters, 16-bit arithmetic.
OpenWindowBounds(p) ==
    Rect(I16(p[1]), I16(p[2]), I16(U16(p[1] + p[3])), I16(U16(p[2] + p[4])))

\* A result register that reports the number of windows open before the call.
OpenWindowResultCount(w) == w.windowCount

OpenWindow(w, p) == WM_NewWindow(w, OpenWindowBounds(p), WM_STYLE_DOCUMENT, WFL_VISIBLE)
OpenWindowResult(w) == IF WM_NewWindowResult(w) # NULL THEN WM_NewWindowResult(w) ELSE 255

\* CMD_CLOSE_WINDOW: the id is the low byte of parameter 0.
CloseWindowTarget(w, p0) == WM_GetWindowById(w, U8(p0))
CloseWindow(w, p0) == WM_DisposeWindow(w, CloseWindowTarget(w, p0))
CloseWindowResult(w, p0) == IF CloseWindowTarget(w, p0) # NULL THEN 0 ELSE 255

(***************************************************************************)
(* The drawing pass of CMD_RENDER_FRAME, as the sequence of rasterizer     *)
(* and window manager calls it makes                                       *)
(***************************************************************************)
Ev(op, arg) == <<op, arg>>

\* The window walk following below instead of above.
RECURSIVE DrawWindowsDown(_, _)
DrawWindowsDown(w, win) ==
    IF win = NULL THEN <<>>
    ELSE (IF HasFlag(w.pool[win].flags, WFL_VISIBLE)
          THEN <<Ev("DrawWindowFrame", win)>> \o
               (IF w.pool[win].drawProc # "NULL" THEN <<Ev("drawProc", win)>> ELSE <<>>)
          ELSE <<>>)
         \o DrawWindowsDown(w, w.pool[win].below)

\* Painter's algorithm: from win upwards via above.
RECURSIVE DrawWindowsFrom(_, _)
DrawWindowsFrom(w, win) ==
    IF win = NULL THEN <<>>
    ELSE (IF HasFlag(w.pool[win].flags, WFL_VISIBLE)
          THEN <<Ev("DrawWindowFrame", win)>> \o
               (IF w.pool[win].drawProc # "NULL" THEN <<Ev("drawProc", win)>> ELSE <<>>)
          ELSE <<>>)
         \o DrawWindowsFrom(w, w.pool[win].above)

RECURSIVE DrawDirtyFrom(_, _, _)
DrawDirtyFrom(w, i, count) ==
    IF i >= count THEN <<>>
    ELSE (IF WM_GetDirtyRect(w, i) = NULL \/ w.dirtyRects[i].valid = 0 THEN <<>>
          ELSE <<Ev("SetClipRect", i), Ev("FillRectPattern", i)>>
               \o DrawWindowsFrom(w, WM_GetBottomWindow(w)))
         \o DrawDirtyFrom(w, i + 1, count)

\* The drawing pass returning early when nothing is dirty.
RenderDrawSkipEmpty(st) ==
    IF WM_BeginUpdate(st.wm) = 0 THEN <<Ev("WM_EndUpdate", 0)>>
    ELSE DrawDirtyFrom(st.wm, 0, WM_BeginUpdate(st.wm))
         \o <<Ev("ResetClip", 0), Ev("MenuBar_Draw", 0)>>
         \o (IF MenuBar_IsTracking(st.mb) # 0 THEN <<Ev("MenuBar_DrawDropdown", 0)>> ELSE <<>>)
         \o <<Ev("BlitCursor", 0), Ev("WM_EndUpdate", 0)>>

RenderDraw(st) ==
    DrawDirtyFrom(st.wm, 0, WM_BeginUpdate(st.wm))
    \o <<Ev("ResetClip", 0), Ev("MenuBar_Draw", 0)>>
    \o (IF MenuBar_IsTracking(st.mb) # 0 THEN <<Ev("MenuBar_DrawDropdown", 0)>> ELSE <<>>)
    \o <<Ev("BlitCursor", 0), Ev("WM_EndUpdate", 0)>>

\* os_init: reinitialises the window manager and the menu bar.
os_init(st) == [st EXCEPT !.wm = WM_Init, !.mb = MenuBar_Init]

(***************************************************************************)
(* Mega Mouse driver (mouse.c)                                             *)
(***************************************************************************)
\* Mouse_Init: the MouseState and the bounds the position is clamped to.
MouseInit ==
    [x |-> 160, y |-> 112, dx |-> 0, dy |-> 0,
     buttons |-> 0, prevButtons |-> 0, connected |-> 0, overflow |-> 0,
     boundsMinX |-> 0, boundsMinY |-> 0, boundsMaxX |-> 319, boundsMaxY |-> 223]

NIBBLE_TIMEOUT == 255
TL_RETRIES == 4000
MOUSE_NIBBLES == 9

\* wait_tl when the TL line mismatches on the first `mismatches` reads of
\* the data port: whether it matched within the retry budget, and the
\* number of reads made.
wait_tl(mismatches) ==
    IF mismatches < TL_RETRIES
    THEN [ok |-> 1, reads |-> mismatches + 1]
    ELSE [ok |-> 0, reads |-> TL_RETRIES]

\* read_nibble on a device answer <<mismatches, data port value>>.
read_nibble(answer) ==
    IF wait_tl(answer[1]).ok = 0 THEN NIBBLE_TIMEOUT ELSE answer[2] % 16

\* The nibbles Mouse_Poll's loop stores for the nine answers of the device.
Nibbles(dev) == [i \in 1..MOUSE_NIBBLES |-> read_nibble(dev[i])]

\* The nibbles the loop reads: up to the first one that times out.
NibblesRead(dev) ==
    LET out == {i \in 1..MOUSE_NIBBLES : read_nibble(dev[i]) = NIBBLE_TIMEOUT}
    IN  IF out = {} THEN MOUSE_NIBBLES ELSE CHOOSE i \in out : \A j \in out : i <= j

\* Reads of the data port wait_tl makes during one Mouse_Poll.
RECURSIVE TLReads(_, _)
TLReads(dev, n) ==
    IF n = 0 THEN 0 ELSE TLReads(dev, n - 1) + wait_tl(dev[n][1]).reads
PollReads(dev) == TLReads(dev, NibblesRead(dev))

\* if (v < lo) v = lo; if (v > hi) v = hi;
Clamp(v, lo, hi) ==
    LET raised == IF v < lo THEN lo ELSE v
    IN  IF raised > hi THEN hi ELSE raised

\* A poll that takes any device for a Mega Mouse.
Mouse_PollAnyId(m, nib) ==
    LET m0 == [m EXCEPT !.prevButtons = m.buttons, !.dx = 0, !.dy = 0, !.overflow = 0]
        signX == nib[3] % 2
        signY == (nib[3] \div 2) % 2
        ovX == nib[2] % 2
        ovY == (nib[2] \div 2) % 2
        magX == nib[5] * 16 + nib[6]
        magY == nib[7] * 16 + nib[8]
        rawX == IF ovX = 1 THEN (IF signX = 1 THEN -255 ELSE 255)
                ELSE IF signX = 1 THEN -magX ELSE magX
        rawY == IF ovY = 1 THEN (IF signY = 1 THEN -255 ELSE 255)
                ELSE IF signY = 1 THEN -magY ELSE magY
    IN  IF \E i \in 1..9 : nib[i] = NIBBLE_TIMEOUT
        THEN [m |-> [m0 EXCEPT !.connected = 0], ret |-> 0]
        ELSE [m |-> [m0 EXCEPT !.connected = 1,
                               !.overflow = IF nib[2] % 4 # 0 THEN 1 ELSE 0,
                               !.buttons = 15 - nib[4],
                               !.dx = rawX, !.dy = rawY,
                               !.x = Clamp(I16(m.x + rawX), m.boundsMinX, m.boundsMaxX),
                               !.y = Clamp(I16(m.y + rawY), m.boundsMinY, m.boundsMaxY)],
              ret |-> 1]

\* Mouse_Poll on the nine nibbles the device delivers (NIBBLE_TIMEOUT where
\* wait_tl ran out of retries): the new state and the return value.
Mouse_Poll(m, nib) ==
    LET m0 == [m EXCEPT !.prevButtons = m.buttons, !.dx = 0, !.dy = 0, !.overflow = 0]
        signX == nib[3] % 2
        signY == (nib[3] \div 2) % 2
        ovX == nib[2] % 2
        ovY == (nib[2] \div 2) % 2
        magX == nib[5] * 16 + nib[6]
        magY == nib[7] * 16 + nib[8]
        rawX == IF ovX = 1 THEN (IF signX = 1 THEN -255 ELSE 255)
                ELSE IF signX = 1 THEN -magX ELSE magX
        rawY == IF ovY = 1 THEN (IF signY = 1 THEN -255 ELSE 255)
                ELSE IF signY = 1 THEN -magY ELSE magY
    IN  IF \E i \in 1..9 : nib[i] = NIBBLE_TIMEOUT
        THEN [m |-> [m0 EXCEPT !.connected = 0], ret |-> 0]
        ELSE IF nib[1] # 0
        THEN [m |-> [m0 EXCEPT !.connected = 0], ret |-> 0]
        ELSE [m |-> [m0 EXCEPT !.connected = 1,
                               !.overflow = IF nib[2] % 4 # 0 THEN 1 ELSE 0,
                               !.buttons = 15 - nib[4],
                               !.dx = rawX, !.dy = rawY,
                               !.x = Clamp(I16(m.x + rawX), m.boundsMinX, m.boundsMaxX),
                               !.y = Clamp(I16(m.y + rawY), m.boundsMinY, m.boundsMaxY)],
              ret |-> 1]

Mouse_SetPosition(m, x, y) ==
    [m EXCEPT !.x = Clamp(x, m.boundsMinX, m.boundsMaxX),
              !.y = Clamp(y, m.boundsMinY, m.boundsMaxY)]

Mouse_SetBounds(m, minX, minY, maxX, maxY) ==
    LET b == [m EXCEPT !.boundsMinX = minX, !.boundsMinY = minY,
                       !.boundsMaxX = maxX, !.boundsMaxY = maxY]
    IN  Mouse_SetPosition(b, b.x, b.y)

\* The event type Input_SendMouseEvent derives (INPUT_EVT_NONE: nothing sent).
MouseEventType(m) ==
    IF m.connected = 0 THEN INPUT_EVT_NONE
    ELSE IF m.buttons # m.prevButtons
    THEN (IF \E b \in {1, 2, 4, 8} : HasFlag(m.buttons, b) /\ ~HasFlag(m.prevButtons, b)
          THEN INPUT_EVT_MOUSE_DOWN ELSE INPUT_EVT_MOUSE_UP)
    ELSE IF m.dx # 0 \/ m.dy # 0
    THEN (IF m.buttons # 0 THEN INPUT_EVT_MOUSE_DRAG ELSE INPUT_EVT_MOUSE_MOVE)
    ELSE INPUT_EVT_NONE

\* The four words Input_SendMouseEvent packs into CMD0-3.
MouseEventParams(m) ==
    <<U16(m.x), U16(m.y), U16(MouseEventType(m) * 256 + m.buttons), U16(m.dx)>>

(***************************************************************************)
(* Bounds of the model                                                     *)
(***************************************************************************)
\* Frame-loop iterations explored.
MaxFrames == 2

\* Frame-loop iterations followed when the machine is required to run on.
MaxLoops == 1

\* Calls a caller of the common.h helpers makes.
MaxCalls == 2

\* Window manager calls made, and windows open at once, when the window
\* manager is driven through its API.
MaxOps == 4
MaxWin == 3

\* Window manager calls made on the prepared desktops.
MaxAPI == 3

\* Commands of a session of window and mouse commands.
MaxSession == 3

\* Calls made on the mouse driver through mouse.h.
MaxMouse == 3

\* Device packets offered to Mouse_Poll: buttons (as reported, active low),
\* sign nibble, and the two movement bytes.
Packet(btnNibble, sign, mx, my) ==
    <<0, 0, sign, btnNibble, mx \div 16, mx % 16, my \div 16, my % 16, 0>>
MousePackets ==
    { <<NIBBLE_TIMEOUT, 0, 0, 0, 0, 0, 0, 0, 0>>,
      Packet(15, 0, 0, 0),
      Packet(14, 0, 0, 0),
      Packet(15, 3, 100, 45),
      Packet(14, 0, 10, 0) }

\* The device delivering a packet: each nibble after `mismatches` reads of
\* a mismatching TL line, a NIBBLE_TIMEOUT nibble never.
Respond(packet, mismatches) ==
    [i \in 1..MOUSE_NIBBLES |->
        IF packet[i] = NIBBLE_TIMEOUT THEN <<TL_RETRIES, 0>> ELSE <<mismatches, packet[i]>>]

\* What the controller port does during a poll: the packets delivered at
\* once, a press delivered at the last retry of every nibble, a transfer
\* that stops after four nibbles, and a device whose first nibble is not 0.
MouseDevices ==
    {Respond(p, 0) : p \in MousePackets}
    \cup { Respond(Packet(14, 0, 0, 0), TL_RETRIES - 1),
           Respond(<<0, 0, 0, 14, NIBBLE_TIMEOUT, 0, 0, 0, 0>>, 0),
           Respond(<<3, 0, 0, 14, 1, 0, 0, 0, 0>>, 0) }

(***************************************************************************)
(* State                                                                   *)
(***************************************************************************)
VARIABLES
    cfm,        \* COMM_FLAG high byte, written by the Main CPU
    cfs,        \* COMM_FLAG low byte, written by the Sub CPU
    cmdreg,     \* CMD0..CMD3 (Main -> Sub)
    result,     \* STATUS0..STATUS1 (Sub -> Main)
    memRET,     \* GA_MEM_MODE bit 0
    memDMNA,    \* GA_MEM_MODE bit 1
    mainBank,   \* the Word RAM bank mapped to the Main CPU
    subBank,    \* the Word RAM bank mapped to the Sub CPU
    mpc,        \* Main CPU position
    mcall,      \* arguments of the main_send_cmd call in progress
    midx,       \* next CMD register the call in progress writes
    mprog,      \* the program the Main CPU runs: "loop" (main.c) or "client"
    mstatus,    \* main_wait_done's local status
    mret,       \* last value returned by main_wait_done
    mouse,      \* MouseState
    frames,     \* frame-loop iterations / client calls so far
    spc,        \* Sub CPU position
    scmd,       \* process_command's cmd
    sparam,     \* parameter words read so far by the handler
    wm,         \* WindowManager
    menuBar,    \* MenuBar
    sub,        \* sub.c statics
    apps,       \* application window handles
    drawLog,    \* calls made by the current/last CMD_RENDER_FRAME
    hist        \* observation record used by the properties

vars == <<cfm, cfs, cmdreg, result, memRET, memDMNA, mainBank, subBank,
          mpc, mcall, midx, mprog, mstatus, mret, mouse, frames,
          spc, scmd, sparam, wm, menuBar, sub, apps, drawLog, hist>>

regVars == <<cfm, cfs, cmdreg, result>>
bankVars == <<memRET, memDMNA, mainBank, subBank>>
mainVars == <<mpc, mcall, midx, mprog, mstatus, mret, mouse, frames>>
subVars == <<spc, scmd, sparam>>
osVars == <<wm, menuBar, sub, apps>>

\* A window manager API call with its arguments and its return value.
APICall(op, win, r, style, flags, pt, ret) ==
    [op |-> op, win |-> win, r |-> r, style |-> style, flags |-> flags, pt |-> pt,
     ret |-> ret]

HistInit ==
    [inflight |-> FALSE,    \* an opcode was written and its handshake is not finished
     clobber |-> FALSE,     \* CMD0-3 or the flag were written while inflight
     sent |-> <<>>,         \* commands written by the Main CPU: <<opcode, params>>
     disp |-> <<>>,         \* commands dispatched by process_command
     fin |-> "none",        \* how the last dispatched command finished
     wmAtAck |-> WM_Init,   \* window manager state when the command was acknowledged
     drawBank |-> NULL,     \* the bank the last drawing pass drew into
     api |-> APICall("none", NULL, Rect(0, 0, 0, 0), 0, 0, Pt(0, 0),
                     [part |-> WM_PART_NONE, window |-> NULL]),
                            \* the last window manager API call
     pre |-> [top |-> NULL, bottom |-> NULL, active |-> NULL, repeat |-> FALSE],
                            \* top, bottom and active window before that call, and
                            \* whether the call before was the same call
     inval |-> <<>>,        \* rectangles handed to WM_InvalidateRect since the last
                            \* WM_EndUpdate, clipped to the screen, the empty ones left out
     query |-> [index |-> NULL, ret |-> NULL],
                            \* index argument and returned value of the last
                            \* WM_BeginUpdate / WM_GetDirtyRect call
     poll |-> [ret |-> NULL, reads |-> 0, timeout |-> FALSE, id |-> 0,
               x |-> 160, y |-> 112, base |-> 0],
                            \* the last Mouse_Poll of main_loop: its return value, the
                            \* reads wait_tl made, whether a nibble wait timed out, the
                            \* first nibble delivered, the position before the poll, and
                            \* the number of commands written before it
     stale |-> [b \in 0..1 |-> {}]]
                            \* per Word RAM bank: the accumulator entries a command of
                            \* process_command added or grew that no drawing pass into
                            \* that bank has covered yet

\* STATUS0-1 with c in STATUS0.
Status(c) == [i \in 0..1 |-> IF i = 0 THEN c ELSE 0]

\* State after boot_sequence (main.c) and sub_init (sub.c).
InitCommon ==
    /\ cfm = CMD_NONE
    /\ cfs = STATUS_IDLE
    /\ cmdreg = <<0, 0, 0, 0>>
    /\ memRET = 0
    /\ memDMNA = 0
    /\ mainBank = 0
    /\ subBank = 1
    /\ mcall = [cmd |-> CMD_NONE, p |-> <<0, 0, 0, 0>>]
    /\ midx = 1
    /\ mstatus = STATUS_IDLE
    /\ mret = STATUS_IDLE
    /\ mouse = MouseInit
    /\ frames = 0
    /\ spc = "wait_cmd"
    /\ scmd = CMD_NONE
    /\ sparam = <<>>
    /\ menuBar = MenuBar_Init
    /\ drawLog = <<>>
    /\ hist = HistInit

(***************************************************************************)
(* Gate array: the bank exchange                                           *)
(***************************************************************************)
\* When RET is set the hardware exchanges the two banks and clears RET; a
\* pending Main CPU request (DMNA) is completed by the same exchange.
HwSwap ==
    /\ memRET = 1
    /\ mainBank' = subBank
    /\ subBank' = mainBank
    /\ memRET' = 0
    /\ memDMNA' = 0
    /\ UNCHANGED <<regVars, mainVars, subVars, osVars, drawLog, hist>>

main_has_wram == memDMNA = 0
sub_has_wram == memRET = 0

(***************************************************************************)
(* Sub CPU: sub_main / process_command (sub.c) over the common.h helpers   *)
(***************************************************************************)
\* Number of CMD registers the handler of cmd reads.
ParamsRead(cmd) ==
    CASE cmd \in {CMD_OPEN_WINDOW, CMD_MOUSE_EVENT} -> 4
      [] cmd \in {CMD_CLOSE_WINDOW, CMD_CD_PLAY} -> 1
      [] OTHER -> 0

\* Dispatch with a default case that falls through to sub_done.
DispatchDefaultDone(cmd) ==
    CASE cmd = CMD_INIT_OS -> "init_os"
      [] cmd = CMD_RENDER_FRAME -> "render_state"
      [] cmd \in {CMD_OPEN_WINDOW, CMD_CLOSE_WINDOW, CMD_CD_PLAY, CMD_MOUSE_EVENT} -> "read_param"
      [] cmd = CMD_WRAM_SWAP -> "ret_set"
      [] OTHER -> "done_set"

\* A switch without the CMD_CD_PLAY case.
DispatchNoCDPlay(cmd) ==
    CASE cmd = CMD_INIT_OS -> "init_os"
      [] cmd = CMD_RENDER_FRAME -> "render_state"
      [] cmd \in {CMD_OPEN_WINDOW, CMD_CLOSE_WINDOW, CMD_MOUSE_EVENT} -> "read_param"
      [] cmd = CMD_WRAM_SWAP -> "ret_set"
      [] OTHER -> "err_set"

\* The switch in process_command: first step of the case taken.
Dispatch(cmd) ==
    CASE cmd = CMD_INIT_OS -> "init_os"
      [] cmd = CMD_RENDER_FRAME -> "render_state"
      [] cmd \in {CMD_OPEN_WINDOW, CMD_CLOSE_WINDOW, CMD_CD_PLAY, CMD_MOUSE_EVENT} -> "read_param"
      [] cmd = CMD_WRAM_SWAP -> "ret_set"
      [] OTHER -> "err_set"

\* sub_wait_cmd: spin until the Main flag is not CMD_NONE.
SubWaitCmd ==
    /\ spc = "wait_cmd"
    /\ cfm # CMD_NONE
    /\ scmd' = cfm
    /\ spc' = "ack"
    /\ UNCHANGED <<regVars, bankVars, mainVars, sparam, osVars, drawLog, hist>>

\* sub_ack, then the switch.
SubAck ==
    /\ spc = "ack"
    /\ cfs' = STATUS_BUSY
    /\ spc' = Dispatch(scmd)
    /\ sparam' = <<>>
    /\ drawLog' = <<>>
    /\ hist' = [hist EXCEPT !.disp = Append(@, <<scmd, <<>>>>),
                            !.fin = "none",
                            !.wmAtAck = wm]
    /\ UNCHANGED <<cfm, cmdreg, result, bankVars, mainVars, scmd, osVars>>

\* One sub_read_param.
SubReadParam ==
    /\ spc = "read_param"
    /\ LET v == cmdreg[Len(sparam) + 1]
           n == Len(hist.disp)
       IN  /\ sparam' = Append(sparam, v)
           /\ hist' = [hist EXCEPT !.disp[n] = <<hist.disp[n][1], Append(hist.disp[n][2], v)>>]
           /\ spc' = IF Len(sparam) + 1 = ParamsRead(scmd) THEN "exec" ELSE "read_param"
    /\ UNCHANGED <<regVars, bankVars, mainVars, scmd, osVars, drawLog>>

\* History kept for the two banks: the valid accumulator entries ...
DirtySet(w) ==
    {w.dirtyRects[i].rect : i \in {k \in 0..(w.dirtyCount - 1) : w.dirtyRects[k].valid # 0}}

\* ... those a command added or grew are owed to both banks ...
NoteInvalidated(before, after) ==
    [hist EXCEPT !.stale = [b \in 0..1 |-> @[b] \cup (DirtySet(after) \ DirtySet(before))]]

\* ... and a drawing pass into a bank settles what its dirty rectangles cover.
Covers(w, r) ==
    \E i \in 0..(w.dirtyCount - 1) :
        /\ w.dirtyRects[i].valid # 0
        /\ w.dirtyRects[i].rect.left <= r.left
        /\ w.dirtyRects[i].rect.top <= r.top
        /\ r.right <= w.dirtyRects[i].rect.right
        /\ r.bottom <= w.dirtyRects[i].rect.bottom

\* Body of the CMD_OPEN_WINDOW, CMD_CLOSE_WINDOW, CMD_CD_PLAY and
\* CMD_MOUSE_EVENT cases once the parameters are read.
SubExec ==
    /\ spc = "exec"
    /\ spc' = "done_set"
    /\ CASE scmd = CMD_OPEN_WINDOW ->
              /\ wm' = OpenWindow(wm, sparam)
              /\ result' = [result EXCEPT ![0] = OpenWindowResult(wm)]
              /\ UNCHANGED <<menuBar, sub, apps>>
         [] scmd = CMD_CLOSE_WINDOW ->
              /\ wm' = CloseWindow(wm, sparam[1])
              /\ result' = [result EXCEPT ![0] = CloseWindowResult(wm, sparam[1])]
              /\ UNCHANGED <<menuBar, sub, apps>>
         [] scmd = CMD_MOUSE_EVENT ->
              /\ \E inv \in BOOLEAN, key \in BOOLEAN :
                    \E st \in {MouseEvent(Kernel(wm, menuBar, sub, apps), sparam,
                                          [inv |-> inv, key |-> key])} :
                        /\ wm' = st.wm
                        /\ menuBar' = st.mb
                        /\ sub' = st.sub
                        /\ apps' = st.apps
              /\ UNCHANGED result
         [] OTHER -> UNCHANGED <<result, osVars>>
    /\ hist' = NoteInvalidated(wm, wm')
    /\ UNCHANGED <<cfm, cfs, cmdreg, bankVars, mainVars, scmd, sparam, drawLog>>

\* CMD_INIT_OS (WM_Init empties the accumulator: the history of the banks
\* starts again with what os_init leaves pending)
SubInitOS ==
    /\ spc = "init_os"
    /\ \E st \in {os_init(Kernel(wm, menuBar, sub, apps))} :
           /\ wm' = st.wm
           /\ menuBar' = st.mb
    /\ spc' = "done_set"
    /\ hist' = [hist EXCEPT !.stale = [b \in 0..1 |-> DirtySet(wm')]]
    /\ UNCHANGED <<regVars, bankVars, mainVars, scmd, sparam, sub, apps, drawLog>>

\* CMD_RENDER_FRAME: sub_write_result(0, SUB_STATE_RENDERING)
SubRenderState ==
    /\ spc = "render_state"
    /\ result' = [result EXCEPT ![0] = SUB_STATE_RENDERING]
    /\ spc' = "render_draw"
    /\ UNCHANGED <<cfm, cfs, cmdreg, bankVars, mainVars, scmd, sparam, osVars, drawLog, hist>>

\* CMD_RENDER_FRAME: WM_BeginUpdate .. WM_EndUpdate
SubRenderDraw ==
    /\ spc = "render_draw"
    /\ result' = [result EXCEPT ![1] = WM_BeginUpdate(wm)]
    /\ drawLog' = RenderDraw(Kernel(wm, menuBar, sub, apps))
    /\ wm' = WM_EndUpdate(wm)
    /\ spc' = "ret_set"
    /\ hist' = [hist EXCEPT !.drawBank = subBank,
                            !.stale[subBank] = {r \in @ : ~Covers(wm, r)}]
    /\ UNCHANGED <<cfm, cfs, cmdreg, bankVars, mainVars, scmd, sparam, menuBar, sub, apps>>

\* sub_return_wram: set RET ...
SubReturnWram ==
    /\ spc = "ret_set"
    /\ memRET' = 1
    /\ drawLog' = Append(drawLog, Ev("sub_return_wram", 0))
    /\ spc' = "ret_wait"
    /\ UNCHANGED <<regVars, memDMNA, mainBank, subBank, mainVars, scmd, sparam, osVars, hist>>

\* sub_return_wram without its wait loop.
SubReturnNoWait ==
    /\ spc = "ret_wait"
    /\ drawLog' = Append(drawLog, Ev("RET_clear", 0))
    /\ spc' = IF scmd = CMD_RENDER_FRAME THEN "render_ready" ELSE "done_set"
    /\ UNCHANGED <<regVars, bankVars, mainVars, scmd, sparam, osVars, hist>>

\* ... and spin until the hardware has cleared it.
SubReturnWait ==
    /\ spc = "ret_wait"
    /\ memRET = 0
    /\ drawLog' = Append(drawLog, Ev("RET_clear", 0))
    /\ spc' = IF scmd = CMD_RENDER_FRAME THEN "render_ready" ELSE "done_set"
    /\ UNCHANGED <<regVars, bankVars, mainVars, scmd, sparam, osVars, hist>>

\* CMD_RENDER_FRAME: sub_write_result(0, SUB_STATE_READY)
SubRenderReady ==
    /\ spc = "render_ready"
    /\ result' = [result EXCEPT ![0] = SUB_STATE_READY]
    /\ spc' = "done_set"
    /\ UNCHANGED <<cfm, cfs, cmdreg, bankVars, mainVars, scmd, sparam, osVars, drawLog, hist>>

\* sub_done: GA_SUB_SET_FLAG(STATUS_DONE)
SubDoneSet ==
    /\ spc = "done_set"
    /\ cfs' = STATUS_DONE
    /\ drawLog' = Append(drawLog, Ev("sub_done", 0))
    /\ hist' = [hist EXCEPT !.fin = "done"]
    /\ spc' = "done_wait"
    /\ UNCHANGED <<cfm, cmdreg, result, bankVars, mainVars, scmd, sparam, osVars>>

\* sub_error: GA_SUB_SET_FLAG(STATUS_ERROR)
SubErrorSet ==
    /\ spc = "err_set"
    /\ cfs' = STATUS_ERROR
    /\ hist' = [hist EXCEPT !.fin = "error"]
    /\ spc' = "done_wait"
    /\ UNCHANGED <<cfm, cmdreg, result, bankVars, mainVars, scmd, sparam, osVars, drawLog>>

\* sub_done / sub_error: spin until the Main flag is CMD_NONE.
SubDoneWait ==
    /\ spc = "done_wait"
    /\ cfm = CMD_NONE
    /\ spc' = "done_idle"
    /\ UNCHANGED <<regVars, bankVars, mainVars, scmd, sparam, osVars, drawLog, hist>>

\* sub_done / sub_error: GA_SUB_SET_FLAG(STATUS_IDLE), back to sub_wait_cmd.
SubDoneIdle ==
    /\ spc = "done_idle"
    /\ cfs' = STATUS_IDLE
    /\ spc' = "wait_cmd"
    /\ UNCHANGED <<cfm, cmdreg, result, bankVars, mainVars, scmd, sparam, osVars, drawLog, hist>>

\* The steps main_loop's two commands (mouse event, render frame) lead to ...
SubRun ==
    \/ SubWaitCmd \/ SubAck \/ SubReadParam \/ SubExec
    \/ SubRenderState \/ SubRenderDraw \/ SubReturnWram \/ SubReturnWait
    \/ SubRenderReady \/ SubDoneSet \/ SubDoneWait \/ SubDoneIdle

\* ... and all of sub_main.
SubStep == SubRun \/ SubInitOS \/ SubErrorSet

(***************************************************************************)
(* Main CPU: the common.h helpers, position by position                    *)
(***************************************************************************)
\* History kept when the Main CPU writes a CMD register / the opcode.
NoteParamWrite == [hist EXCEPT !.clobber = @ \/ hist.inflight]
NoteFlagWrite(op, p) ==
    [hist EXCEPT !.clobber = @ \/ hist.inflight,
                 !.inflight = TRUE,
                 !.sent = Append(@, <<op, p>>)]

\* Where the running program continues after main_send_cmd / main_wait_done.
AfterSend == IF mprog = "client" THEN "ready" ELSE "wd_poll"
AfterWait == IF mprog = "loop" THEN "fb_update" ELSE "ready"

RenderCall == [cmd |-> CMD_RENDER_FRAME, p |-> <<0, 0, 320, 224>>]

\* main_send_cmd: while (GA_MAIN_READ_SUB_FLAG() != STATUS_IDLE) {}
MainSendWait ==
    /\ mpc = "send_wait"
    /\ cfs = STATUS_IDLE
    /\ mpc' = "send_param"
    /\ midx' = 1
    /\ UNCHANGED <<regVars, bankVars, mcall, mprog, mstatus, mret, mouse, frames,
                   subVars, osVars, drawLog, hist>>

\* main_send_cmd: GA_MAIN_REG16(GA_CMD0..3) = p0..p3, one write per step.
MainSendParam ==
    /\ mpc = "send_param"
    /\ cmdreg' = [cmdreg EXCEPT ![midx] = mcall.p[midx]]
    /\ midx' = IF midx = 4 THEN 1 ELSE midx + 1
    /\ mpc' = IF midx = 4 THEN "send_flag" ELSE "send_param"
    /\ hist' = NoteParamWrite
    /\ UNCHANGED <<cfm, cfs, result, bankVars, mcall, mprog, mstatus, mret, mouse, frames,
                   subVars, osVars, drawLog>>

\* main_send_cmd: GA_MAIN_SET_FLAG(cmd)
MainSendFlag ==
    /\ mpc = "send_flag"
    /\ cfm' = mcall.cmd
    /\ mpc' = AfterSend
    /\ hist' = NoteFlagWrite(mcall.cmd, mcall.p)
    /\ UNCHANGED <<cfs, cmdreg, result, bankVars, mcall, midx, mprog, mstatus, mret, mouse,
                   frames, subVars, osVars, drawLog>>

\* main_wait_done: do { status = GA_MAIN_READ_SUB_FLAG(); } while (...)
MainWaitPoll ==
    /\ mpc = "wd_poll"
    /\ cfs \in {STATUS_DONE, STATUS_ERROR}
    /\ mstatus' = cfs
    /\ mpc' = "wd_clear"
    /\ UNCHANGED <<regVars, bankVars, mcall, midx, mprog, mret, mouse, frames,
                   subVars, osVars, drawLog, hist>>

\* main_wait_done: GA_MAIN_SET_FLAG(CMD_NONE)
MainWaitClear ==
    /\ mpc = "wd_clear"
    /\ cfm' = CMD_NONE
    /\ mpc' = "wd_idle"
    /\ UNCHANGED <<cfs, cmdreg, result, bankVars, mcall, midx, mprog, mstatus, mret, mouse,
                   frames, subVars, osVars, drawLog, hist>>

\* main_wait_done returning without its wait for STATUS_IDLE.
MainWaitNoIdle ==
    /\ mpc = "wd_idle"
    /\ mret' = mstatus
    /\ mpc' = AfterWait
    /\ hist' = [hist EXCEPT !.inflight = FALSE]
    /\ UNCHANGED <<regVars, bankVars, mcall, midx, mprog, mstatus, mouse, frames,
                   subVars, osVars, drawLog>>

\* main_wait_done returning a fresh read of the Sub flag instead of status.
MainWaitIdleReread ==
    /\ mpc = "wd_idle"
    /\ cfs = STATUS_IDLE
    /\ mret' = cfs
    /\ mpc' = AfterWait
    /\ hist' = [hist EXCEPT !.inflight = FALSE]
    /\ UNCHANGED <<regVars, bankVars, mcall, midx, mprog, mstatus, mouse, frames,
                   subVars, osVars, drawLog>>

\* main_wait_done: wait for STATUS_IDLE, return status.
MainWaitIdle ==
    /\ mpc = "wd_idle"
    /\ cfs = STATUS_IDLE
    /\ mret' = mstatus
    /\ mpc' = AfterWait
    /\ hist' = [hist EXCEPT !.inflight = FALSE]
    /\ UNCHANGED <<regVars, bankVars, mcall, midx, mprog, mstatus, mouse, frames,
                   subVars, osVars, drawLog>>

\* main_read_result(0)
main_read_result(reg) == result[reg]

(***************************************************************************)
(* Main CPU: main_loop (main.c) with Input_SendMouseEvent (input.h)        *)
(***************************************************************************)
\* VDP_WaitVSync(); if (Mouse_Poll()) Input_SendMouseEvent();  up to the
\* first register write, or the call of main_send_cmd(CMD_RENDER_FRAME, ...).
MainPollWithin(iterations) ==
    /\ mpc = "vsync"
    /\ frames < iterations
    /\ frames' = frames + 1
    /\ \E dev \in MouseDevices :
          LET r == Mouse_Poll(mouse, Nibbles(dev))
              sends == r.ret = 1 /\ MouseEventType(r.m) # INPUT_EVT_NONE
          IN  /\ mouse' = r.m
              /\ mcall' = IF sends
                          THEN [cmd |-> CMD_MOUSE_EVENT, p |-> MouseEventParams(r.m)]
                          ELSE RenderCall
              /\ mpc' = IF sends THEN "ise_param" ELSE "send_wait"
              /\ hist' = [hist EXCEPT !.poll =
                             [ret |-> r.ret,
                              reads |-> PollReads(dev),
                              timeout |-> \E i \in 1..MOUSE_NIBBLES : dev[i][1] >= TL_RETRIES,
                              id |-> dev[1][2] % 16,
                              x |-> mouse.x, y |-> mouse.y,
                              base |-> Len(hist.sent)]]
    /\ midx' = 1
    /\ UNCHANGED <<regVars, bankVars, mprog, mstatus, mret, subVars, osVars, drawLog>>

MainPoll == MainPollWithin(MaxFrames)

\* Input_SendMouseEvent: main_send_param(0..3, ...)
MainEventParam ==
    /\ mpc = "ise_param"
    /\ cmdreg' = [cmdreg EXCEPT ![midx] = mcall.p[midx]]
    /\ midx' = IF midx = 4 THEN 1 ELSE midx + 1
    /\ mpc' = IF midx = 4 THEN "ise_flag" ELSE "ise_param"
    /\ hist' = NoteParamWrite
    /\ UNCHANGED <<cfm, cfs, result, bankVars, mcall, mprog, mstatus, mret, mouse, frames,
                   subVars, osVars, drawLog>>

\* Input_SendMouseEvent: GA_MAIN_SET_FLAG(CMD_MOUSE_EVENT); then main_loop
\* calls main_send_cmd(CMD_RENDER_FRAME, 0, 0, 320, 224).
MainEventFlag ==
    /\ mpc = "ise_flag"
    /\ cfm' = CMD_MOUSE_EVENT
    /\ hist' = NoteFlagWrite(CMD_MOUSE_EVENT, mcall.p)
    /\ mcall' = RenderCall
    /\ mpc' = "send_wait"
    /\ UNCHANGED <<cfs, cmdreg, result, bankVars, midx, mprog, mstatus, mret, mouse, frames,
                   subVars, osVars, drawLog>>

\* FB_UpdateFrame(WRAM_BANK0_MAIN)
MainUpdateFrame ==
    /\ mpc = "fb_update"
    /\ mpc' = "vsync"
    /\ UNCHANGED <<regVars, bankVars, mcall, midx, mprog, mstatus, mret, mouse, frames,
                   subVars, osVars, drawLog, hist>>

MainCall == MainSendWait \/ MainSendParam \/ MainSendFlag
            \/ MainWaitPoll \/ MainWaitClear \/ MainWaitIdle

\* The program as built: main_loop on the Main CPU, sub_main on the Sub CPU.
Init ==
    /\ InitCommon
    /\ result = Status(SUB_STATE_READY)
    /\ mprog = "loop"
    /\ mpc = "vsync"
    /\ wm = WM_Init
    /\ sub = SubInit
    /\ apps = AppsInit

Next ==
    \/ MainPoll \/ MainEventParam \/ MainEventFlag \/ MainUpdateFrame
    \/ MainCall
    \/ SubRun
    \/ HwSwap

Spec == Init /\ [][Next]_vars

\* The same program on a machine that does not halt: while a processor or
\* the gate array can take a step, one of them does.
NextLoop ==
    \/ MainPollWithin(MaxLoops) \/ MainEventParam \/ MainEventFlag \/ MainUpdateFrame
    \/ MainCall
    \/ SubRun
    \/ HwSwap

SpecLoop == Init /\ [][NextLoop]_vars /\ WF_vars(NextLoop)

(***************************************************************************)
(* The common.h helpers under any Main CPU caller                          *)
(***************************************************************************)
Call(cmd, p) == [cmd |-> cmd, p |-> p]

\* Commands a caller issues: every opcode process_command handles, opcodes
\* it does not (CMD_BOOT, CMD_MOVE_WINDOW, 255), and parameters that open a
\* window, close window 0, name no window, and press and release the mouse
\* button on the File title, the New item and the opened window.
ClientCalls ==
    { Call(CMD_INIT_OS, <<0, 0, 0, 0>>),
      Call(CMD_RENDER_FRAME, <<0, 0, 320, 224>>),
      Call(CMD_WRAM_SWAP, <<0, 0, 0, 0>>),
      Call(CMD_OPEN_WINDOW, <<40, 50, 100, 80>>),
      Call(CMD_CLOSE_WINDOW, <<0, 0, 0, 0>>),
      Call(CMD_CLOSE_WINDOW, <<5, 0, 0, 0>>),
      Call(CMD_CD_PLAY, <<1, 0, 0, 0>>),
      Call(CMD_MOVE_WINDOW, <<0, 30, 30, 0>>),
      Call(CMD_BOOT, <<0, 0, 0, 0>>),
      Call(255, <<1, 2, 3, 4>>),
      Call(CMD_MOUSE_EVENT, <<30, 12, INPUT_EVT_MOUSE_DOWN * 256 + 1, 0>>),
      Call(CMD_MOUSE_EVENT, <<30, 27, INPUT_EVT_MOUSE_UP * 256, 0>>),
      Call(CMD_MOUSE_EVENT, <<60, 60, INPUT_EVT_MOUSE_DOWN * 256 + 1, 0>>) }

\* The caller calls main_send_cmd(c.cmd, c.p[1..4]).
ClientSend ==
    /\ mpc = "ready"
    /\ frames < MaxCalls
    /\ frames' = frames + 1
    /\ \E c \in ClientCalls : mcall' = c
    /\ mpc' = "send_wait"
    /\ UNCHANGED <<regVars, bankVars, midx, mprog, mstatus, mret, mouse,
                   subVars, osVars, drawLog, hist>>

\* The caller calls main_wait_done for the command it has sent.
ClientWaitDone ==
    /\ mpc = "ready"
    /\ hist.inflight
    /\ mpc' = "wd_poll"
    /\ UNCHANGED <<regVars, bankVars, mcall, midx, mprog, mstatus, mret, mouse, frames,
                   subVars, osVars, drawLog, hist>>

\* The caller calls main_request_swap.
ClientRequestSwap ==
    /\ mpc = "ready"
    /\ frames < MaxCalls
    /\ frames' = frames + 1
    /\ mpc' = "rs_set"
    /\ UNCHANGED <<regVars, bankVars, mcall, midx, mprog, mstatus, mret, mouse,
                   subVars, osVars, drawLog, hist>>

\* main_request_swap: set DMNA ...
MainRequestSet ==
    /\ mpc = "rs_set"
    /\ memDMNA' = 1
    /\ mpc' = "rs_wait"
    /\ UNCHANGED <<regVars, memRET, mainBank, subBank, mcall, midx, mprog, mstatus, mret,
                   mouse, frames, subVars, osVars, drawLog, hist>>

\* ... and spin until it reads clear.
MainRequestWait ==
    /\ mpc = "rs_wait"
    /\ memDMNA = 0
    /\ mpc' = "ready"
    /\ UNCHANGED <<regVars, bankVars, mcall, midx, mprog, mstatus, mret, mouse, frames,
                   subVars, osVars, drawLog, hist>>

\* A caller free to call the helpers in any order.
InitClient ==
    /\ InitCommon
    /\ result = Status(SUB_STATE_READY)
    /\ mprog = "client"
    /\ mpc = "ready"
    /\ wm = WM_Init
    /\ sub = SubInit
    /\ apps = AppsInit

NextClient ==
    \/ ClientSend \/ ClientWaitDone \/ ClientRequestSwap
    \/ MainRequestSet \/ MainRequestWait
    \/ MainCall
    \/ SubStep
    \/ HwSwap

SpecClient == InitClient /\ [][NextClient]_vars

\* A caller that follows every main_send_cmd by main_wait_done, started with
\* the desktop empty or with one window open.  Both CPUs run without pause
\* and the gate array acts on a set RET bit, hence the fairness conditions.
PairedCalls ==
    { Call(CMD_INIT_OS, <<0, 0, 0, 0>>),
      Call(CMD_RENDER_FRAME, <<0, 0, 320, 224>>),
      Call(CMD_WRAM_SWAP, <<0, 0, 0, 0>>),
      Call(CMD_CLOSE_WINDOW, <<0, 0, 0, 0>>),
      Call(CMD_CD_PLAY, <<1, 0, 0, 0>>),
      Call(CMD_MOVE_WINDOW, <<0, 30, 30, 0>>),
      Call(CMD_BOOT, <<0, 0, 0, 0>>),
      Call(255, <<1, 2, 3, 4>>) }

PairedSend ==
    /\ mpc = "ready"
    /\ frames < MaxCalls
    /\ frames' = frames + 1
    /\ \E c \in PairedCalls : mcall' = c
    /\ mpc' = "send_wait"
    /\ UNCHANGED <<regVars, bankVars, midx, mprog, mstatus, mret, mouse,
                   subVars, osVars, drawLog, hist>>

InitPaired ==
    /\ InitCommon
    /\ mprog = "paired"
    /\ mpc = "ready"
    /\ \/ /\ wm = WM_Init
          /\ result = Status(SUB_STATE_READY)
       \/ /\ wm = OpenWindow(WM_Init, <<40, 50, 100, 80>>)
          /\ result = Status(OpenWindowResult(WM_Init))
    /\ sub = SubInit
    /\ apps = AppsInit

NextPaired == PairedSend \/ MainCall \/ SubStep \/ HwSwap

SpecPaired ==
    /\ InitPaired
    /\ [][NextPaired]_vars
    /\ WF_vars(MainCall)
    /\ WF_vars(SubStep)
    /\ WF_vars(HwSwap)

\* A session of commands, each sent with main_send_cmd and awaited with
\* main_wait_done: initialise, render a frame, an opcode process_command
\* does not know, open a window, close window 0, press the button on the
\* title bar and on the close box of the window at (40,50), move and drag
\* the pointer, release the button; close with the id of a slot that is
\* never allocated (5) and with an id beyond the pool (0x0100).
SessionCalls ==
    { Call(CMD_INIT_OS, <<0, 0, 0, 0>>),
      Call(CMD_RENDER_FRAME, <<0, 0, 320, 224>>),
      Call(255, <<1, 2, 3, 4>>),
      Call(CMD_OPEN_WINDOW, <<40, 50, 100, 80>>),
      Call(CMD_CLOSE_WINDOW, <<0, 0, 0, 0>>),
      Call(CMD_CLOSE_WINDOW, <<5, 0, 0, 0>>),
      Call(CMD_CLOSE_WINDOW, <<256, 0, 0, 0>>),
      Call(CMD_MOUSE_EVENT, <<60, 55, INPUT_EVT_MOUSE_DOWN * 256 + 1, 0>>),
      Call(CMD_MOUSE_EVENT, <<50, 60, INPUT_EVT_MOUSE_DOWN * 256 + 3, 0>>),
      Call(CMD_MOUSE_EVENT, <<80, 70, INPUT_EVT_MOUSE_MOVE * 256, 20>>),
      Call(CMD_MOUSE_EVENT, <<80, 70, INPUT_EVT_MOUSE_DRAG * 256 + 1, 20>>),
      Call(CMD_MOUSE_EVENT, <<80, 70, INPUT_EVT_MOUSE_UP * 256, 0>>) }

SessionSend ==
    /\ mpc = "ready"
    /\ frames < MaxSession
    /\ frames' = frames + 1
    /\ \E c \in SessionCalls : mcall' = c
    /\ mpc' = "send_wait"
    /\ UNCHANGED <<regVars, bankVars, midx, mprog, mstatus, mret, mouse,
                   subVars, osVars, drawLog, hist>>

NextSession == SessionSend \/ MainCall \/ SubStep \/ HwSwap

SpecSession == InitPaired /\ [][NextSession]_vars

(***************************************************************************)
(* The window manager driven through its API (wm.h), with the drawing pass *)
(* of CMD_RENDER_FRAME                                                     *)
(***************************************************************************)
UsedSlots(w) == {i \in 0..(WM_MAX_WINDOWS - 1) : w.poolUsed[i] # 0}

\* Arguments offered to the API: frames inside, overlapping and partly off
\* the screen; positions and sizes; rectangles that overlap, are disjoint,
\* and are empty after clipping.
WMBounds == {Rect(10, 30, 110, 100), Rect(60, 60, 200, 180), Rect(300, 200, 400, 300)}
WMNewArgs ==
    { [style |-> WM_STYLE_DOCUMENT, flags |-> WFL_VISIBLE],
      [style |-> WM_STYLE_PLAIN, flags |-> WFL_VISIBLE + WFL_HAS_GROW],
      [style |-> WM_STYLE_DIALOG, flags |-> 0] }
WMPoints == {Pt(0, 20), Pt(100, 50)}
WMSizes == {Pt(50, 40), Pt(400, 300)}
WMRects == {Rect(0, 0, 50, 50), Rect(40, 40, 120, 90), Rect(-10, -10, 0, 0)}

WMStep(w) ==
    /\ frames < MaxOps
    /\ frames' = frames + 1
    /\ wm' = w
    /\ UNCHANGED <<regVars, bankVars, mpc, mcall, midx, mprog, mstatus, mret, mouse,
                   subVars, menuBar, sub, apps, drawLog, hist>>

WMNew ==
    \E b \in WMBounds, a \in WMNewArgs :
        /\ wm.windowCount < MaxWin
        /\ WMStep(WM_NewWindow(wm, b, a.style, a.flags))

\* An application opening its window: WM_NewWindow, then the callbacks.
WMOpenCalc ==
    /\ wm.windowCount < MaxWin
    /\ WMStep(Calc_Open(Kernel(wm, menuBar, sub, apps)).wm)

WMDispose == \E win \in UsedSlots(wm) \cup {NULL} : WMStep(WM_DisposeWindow(wm, win))
WMSelect == \E win \in UsedSlots(wm) \cup {NULL} : WMStep(WM_SelectWindow(wm, win))
WMSendBack == \E win \in UsedSlots(wm) \cup {NULL} : WMStep(WM_SendToBack(wm, win))
WMShow == \E win \in UsedSlots(wm) \cup {NULL} : WMStep(WM_ShowWindow(wm, win))
WMHide == \E win \in UsedSlots(wm) \cup {NULL} : WMStep(WM_HideWindow(wm, win))
WMMove ==
    \E win \in UsedSlots(wm) \cup {NULL}, pt \in WMPoints :
        WMStep(WM_MoveWindow(wm, win, pt.x, pt.y))
WMSize ==
    \E win \in UsedSlots(wm) \cup {NULL}, sz \in WMSizes :
        WMStep(WM_SizeWindow(wm, win, sz.x, sz.y))
WMInvalidate == \E r \in WMRects : WMStep(WM_InvalidateRect(wm, r))

\* The drawing pass of CMD_RENDER_FRAME, WM_BeginUpdate to WM_EndUpdate.
WMRender ==
    /\ frames < MaxOps
    /\ frames' = frames + 1
    /\ result' = [result EXCEPT ![1] = WM_BeginUpdate(wm)]
    /\ drawLog' = RenderDraw(Kernel(wm, menuBar, sub, apps))
    /\ wm' = WM_EndUpdate(wm)
    /\ UNCHANGED <<cfm, cfs, cmdreg, bankVars, mpc, mcall, midx, mprog, mstatus, mret, mouse,
                   subVars, menuBar, sub, apps, hist>>

InitWM ==
    /\ InitCommon
    /\ result = Status(SUB_STATE_READY)
    /\ mprog = "wm"
    /\ mpc = "ready"
    /\ wm = WM_Init
    /\ sub = SubInit
    /\ apps = AppsInit

NextWM ==
    \/ WMNew \/ WMOpenCalc \/ WMDispose \/ WMSelect \/ WMSendBack
    \/ WMShow \/ WMHide \/ WMMove \/ WMSize \/ WMInvalidate \/ WMRender

SpecWM == InitWM /\ [][NextWM]_vars

(***************************************************************************)
(* The window manager API called on a desktop that is empty, holds three   *)
(* overlapping windows, has its window pool exhausted, or has its dirty    *)
(* accumulator full; the last call and its return value are recorded       *)
(***************************************************************************)
\* n more windows opened by WM_NewWindow, staggered down the screen.
RECURSIVE NewWindows(_, _)
NewWindows(w, n) ==
    IF n = 0 THEN w
    ELSE LET p == NewWindows(w, n - 1)
             k == p.windowCount
         IN  IF k < WM_MAX_WINDOWS
             THEN WM_NewWindow(p, Rect(8 + 16 * k, 24 + 8 * k, 72 + 16 * k, 74 + 8 * k),
                               WM_STYLE_DOCUMENT, WFL_VISIBLE)
             ELSE p

\* n disjoint tiles passed to WM_InvalidateRect (the accumulator of the
\* calls before is evaluated first, which keeps the evaluation shallow).
InvalidateTiles[n \in 0..WM_MAX_DIRTY_RECTS] ==
    IF n = 0 THEN WM_Init
    ELSE LET p == InvalidateTiles[n - 1]
         IN  IF p.dirtyCount = n - 1
             THEN WM_InvalidateRect(p, Rect(10 * (n - 1), 200, 10 * (n - 1) + 5, 210))
             ELSE p

\* A document window with a grow box whose title bar reaches into the menu
\* bar band, a plain window and a hidden dialog on top, after a drawing pass.
ThreeWindows ==
    WM_EndUpdate(
        WM_NewWindow(
            WM_NewWindow(
                WM_NewWindow(WM_Init, Rect(10, 10, 100, 100), WM_STYLE_DOCUMENT,
                             WFL_VISIBLE + WFL_HAS_GROW),
                Rect(60, 60, 200, 180), WM_STYLE_PLAIN, WFL_VISIBLE),
            Rect(50, 40, 150, 120), WM_STYLE_DIALOG, 0))

APIScenes ==
    { WM_Init,
      ThreeWindows,
      NewWindows(WM_Init, WM_MAX_WINDOWS),
      InvalidateTiles[WM_MAX_DIRTY_RECTS] }

\* Arguments offered to the calls.
APINewArgs ==
    LET bounds == {Rect(10, 10, 100, 100), Rect(310, 200, 400, 300)}
        kinds == { [style |-> WM_STYLE_DOCUMENT, flags |-> WFL_VISIBLE + WFL_HAS_GROW],
                   [style |-> WM_STYLE_SHADOW, flags |-> WFL_VISIBLE],
                   [style |-> WM_STYLE_DIALOG, flags |-> 0] }
    IN  {[bounds |-> b, style |-> k.style, flags |-> k.flags] : b \in bounds, k \in kinds}
APITargets(w) ==
    {NULL} \cup (UsedSlots(w) \cap {0, 1, 2, WM_MAX_WINDOWS - 2, WM_MAX_WINDOWS - 1})
APIPoints ==
    { Pt(15, 14), Pt(15, 22), Pt(50, 22), Pt(10, 50), Pt(50, 50), Pt(95, 95),
      Pt(70, 70), Pt(120, 100), Pt(199, 179), Pt(250, 19), Pt(250, 20), Pt(319, 210) }
APIRects ==
    { Rect(0, 0, 50, 50), Rect(40, 40, 120, 90), Rect(300, 205, 330, 230),
      Rect(40, 40, 310, 210), Rect(-10, -10, 0, 0) }

APIStep(w, call) ==
    /\ frames < MaxAPI
    /\ frames' = frames + 1
    /\ wm' = w
    /\ hist' = [hist EXCEPT !.api = call,
                            !.pre = [top |-> wm.topWindow, bottom |-> wm.bottomWindow,
                                     active |-> wm.activeWindow,
                                     repeat |-> (call = hist.api)]]
    /\ UNCHANGED <<regVars, bankVars, mpc, mcall, midx, mprog, mstatus, mret, mouse,
                   subVars, menuBar, sub, apps, drawLog>>

APINew ==
    \E a \in APINewArgs :
        APIStep(WM_NewWindow(wm, a.bounds, a.style, a.flags),
                APICall("WM_NewWindow", NULL, a.bounds, a.style, a.flags, Pt(0, 0),
                        [part |-> WM_PART_NONE, window |-> WM_NewWindowResult(wm)]))

APIDispose ==
    \E win \in APITargets(wm) :
        APIStep(WM_DisposeWindow(wm, win),
                APICall("WM_DisposeWindow", win, Rect(0, 0, 0, 0), 0, 0, Pt(0, 0),
                        [part |-> WM_PART_NONE, window |-> NULL]))

APISelect ==
    \E win \in APITargets(wm) :
        APIStep(WM_SelectWindow(wm, win),
                APICall("WM_SelectWindow", win, Rect(0, 0, 0, 0), 0, 0, Pt(0, 0),
                        [part |-> WM_PART_NONE, window |-> NULL]))

APISendBack ==
    \E win \in APITargets(wm) :
        APIStep(WM_SendToBack(wm, win),
                APICall("WM_SendToBack", win, Rect(0, 0, 0, 0), 0, 0, Pt(0, 0),
                        [part |-> WM_PART_NONE, window |-> NULL]))

APIFind ==
    \E pt \in APIPoints :
        APIStep(wm, APICall("WM_FindWindow", NULL, Rect(0, 0, 0, 0), 0, 0, pt,
                            WM_FindWindow(wm, pt)))

APIInvalidate ==
    \E r \in APIRects :
        APIStep(WM_InvalidateRect(wm, r),
                APICall("WM_InvalidateRect", NULL, r, 0, 0, Pt(0, 0),
                        [part |-> WM_PART_NONE, window |-> NULL]))

InitAPI ==
    /\ InitCommon
    /\ result = Status(SUB_STATE_READY)
    /\ mprog = "api"
    /\ mpc = "ready"
    /\ wm \in APIScenes
    /\ sub = SubInit
    /\ apps = AppsInit

NextAPI ==
    \/ APINew \/ APIDispose \/ APISelect \/ APISendBack \/ APIFind \/ APIInvalidate

SpecAPI == InitAPI /\ [][NextAPI]_vars

(***************************************************************************)
(* Window geometry and the dirty accumulator through the API, on the empty *)
(* desktop and on the three windows, with the rectangles handed to         *)
(* WM_InvalidateRect recorded                                              *)
(***************************************************************************)
\* One call that hands the rectangles rects, in this order, to
\* WM_InvalidateRect.
\* One call: the state it leaves, its descriptor, the rectangles it hands to
\* WM_InvalidateRect, and for a query its index argument and returned value.
TrackCall(w, call, rects, index, ret) ==
    LET NonEmpty(r) == r.left < r.right /\ r.top < r.bottom
        clipped == [i \in 1..Len(rects) |-> rect_clip_to_screen(rects[i])]
    IN  /\ frames < MaxAPI
        /\ frames' = frames + 1
        /\ wm' = w
        /\ hist' = [hist EXCEPT !.api = call,
                                !.pre = [top |-> wm.topWindow, bottom |-> wm.bottomWindow,
                                         active |-> wm.activeWindow,
                                         repeat |-> (call = hist.api)],
                                !.inval = IF call.op = "WM_EndUpdate" THEN <<>>
                                          ELSE hist.inval \o SelectSeq(clipped, NonEmpty),
                                !.query = [index |-> index, ret |-> ret]]
        /\ UNCHANGED <<regVars, bankVars, mpc, mcall, midx, mprog, mstatus, mret, mouse,
                       subVars, menuBar, sub, apps, drawLog>>

TrackStep(w, call, rects) == TrackCall(w, call, rects, NULL, NULL)

TrackTargets(w) == {NULL} \cup (UsedSlots(w) \cap {0, 2})

\* WM_InvalidateRect arguments: those of APIRects, one wholly off the
\* right edge of the screen and one of zero width.
TrackRects == APIRects \cup { Rect(330, 100, 400, 150), Rect(30, 30, 30, 60) }

TrackInvalidate ==
    \E r \in TrackRects :
        TrackStep(WM_InvalidateRect(wm, r),
                  APICall("WM_InvalidateRect", NULL, r, 0, 0, Pt(0, 0),
                          [part |-> WM_PART_NONE, window |-> NULL]),
                  <<r>>)

TrackInvalidateWindow ==
    \E win \in TrackTargets(wm) :
        TrackStep(WM_InvalidateWindow(wm, win),
                  APICall("WM_InvalidateWindow", win, Rect(0, 0, 0, 0), 0, 0, Pt(0, 0),
                          [part |-> WM_PART_NONE, window |-> NULL]),
                  IF win = NULL THEN <<>> ELSE <<wm.pool[win].frame>>)

\* WM_SetTitle with a title and with a null title.
TrackSetTitle ==
    \E win \in TrackTargets(wm), title \in {NULL, 1} :
        TrackStep(WM_SetTitle(wm, win, title),
                  APICall("WM_SetTitle", win, Rect(0, 0, 0, 0), 0, 0, Pt(0, 0),
                          [part |-> WM_PART_NONE, window |-> NULL]),
                  IF win = NULL \/ title = NULL THEN <<>> ELSE <<wm.pool[win].titleBar>>)

\* WM_SetDesktopPattern with the pattern in use and with another one.
TrackSetPattern ==
    \E pattern \in {1, 2} :
        TrackStep(WM_SetDesktopPattern(wm, pattern),
                  APICall("WM_SetDesktopPattern", NULL, Rect(0, 0, 0, 0), pattern, 0, Pt(0, 0),
                          [part |-> WM_PART_NONE, window |-> NULL]),
                  IF pattern = wm.desktopPattern THEN <<>>
                  ELSE <<Rect(0, WM_MENUBAR_H, WM_SCREEN_W, WM_SCREEN_H)>>)

\* WM_InvalidateRect called on 32 disjoint tiles in a row, the accumulator
\* being empty; the call touches nothing but the accumulator.
TrackTiles ==
    /\ wm.dirtyCount = 0
    /\ TrackStep([wm EXCEPT !.dirtyRects = InvalidateTiles[WM_MAX_DIRTY_RECTS].dirtyRects,
                            !.dirtyCount = InvalidateTiles[WM_MAX_DIRTY_RECTS].dirtyCount],
                 APICall("WM_InvalidateRect", NULL, Rect(310, 200, 315, 210), 0, 0, Pt(0, 0),
                         [part |-> WM_PART_NONE, window |-> NULL]),
                 [i \in 1..WM_MAX_DIRTY_RECTS |->
                     Rect(10 * (i - 1), 200, 10 * (i - 1) + 5, 210)])

\* WM_MoveWindow arguments: those of WMPoints, one that pushes the frame
\* over the right and bottom screen edge and one left of the screen.
TrackPoints == WMPoints \cup { Pt(300, 200), Pt(-20, 30) }

TrackMove ==
    \E win \in TrackTargets(wm), pt \in TrackPoints :
        TrackStep(WM_MoveWindow(wm, win, pt.x, pt.y),
                  APICall("WM_MoveWindow", win, Rect(0, 0, 0, 0), 0, 0, pt,
                          [part |-> WM_PART_NONE, window |-> NULL]),
                  IF win = NULL THEN <<>>
                  ELSE <<wm.pool[win].frame,
                         WM_MoveWindow(wm, win, pt.x, pt.y).pool[win].frame>>)

TrackSize ==
    \E win \in TrackTargets(wm), sz \in WMSizes :
        TrackStep(WM_SizeWindow(wm, win, sz.x, sz.y),
                  APICall("WM_SizeWindow", win, Rect(0, 0, 0, 0), 0, 0, sz,
                          [part |-> WM_PART_NONE, window |-> NULL]),
                  IF win = NULL THEN <<>>
                  ELSE <<wm.pool[win].frame,
                         WM_SizeWindow(wm, win, sz.x, sz.y).pool[win].frame>>)

TrackEndUpdate ==
    TrackStep(WM_EndUpdate(wm),
              APICall("WM_EndUpdate", NULL, Rect(0, 0, 0, 0), 0, 0, Pt(0, 0),
                      [part |-> WM_PART_NONE, window |-> NULL]),
              <<>>)

TrackBeginUpdate ==
    TrackCall(wm,
              APICall("WM_BeginUpdate", NULL, Rect(0, 0, 0, 0), 0, 0, Pt(0, 0),
                      [part |-> WM_PART_NONE, window |-> NULL]),
              <<>>, NULL, WM_BeginUpdate(wm))

\* WM_GetDirtyRect index arguments (uint8_t).
TrackIndexes == {0, 1, 2, 31, 32, 33, 255}

TrackGetDirtyRect ==
    \E index \in TrackIndexes :
        TrackCall(wm,
                  APICall("WM_GetDirtyRect", NULL, Rect(0, 0, 0, 0), 0, 0, Pt(0, 0),
                          [part |-> WM_PART_NONE, window |-> NULL]),
                  <<>>, index, WM_GetDirtyRect(wm, index))

InitTrack ==
    /\ InitCommon
    /\ result = Status(SUB_STATE_READY)
    /\ mprog = "api"
    /\ mpc = "ready"
    /\ wm \in {WM_Init, ThreeWindows}
    /\ sub = SubInit
    /\ apps = AppsInit

NextTrack ==
    \/ TrackInvalidate \/ TrackInvalidateWindow \/ TrackTiles
    \/ TrackMove \/ TrackSize \/ TrackEndUpdate
    \/ TrackBeginUpdate \/ TrackGetDirtyRect
    \/ TrackSetTitle \/ TrackSetPattern

SpecTrack == InitTrack /\ [][NextTrack]_vars

(***************************************************************************)
(* The mouse driver called through mouse.h                                 *)
(***************************************************************************)
\* Positions and bounds handed to the driver: inside the screen, beyond
\* it, a small region, a region larger than the screen, the default one.
MousePositions == {Pt(10, 10), Pt(600, 400), Pt(-5, 300)}
MouseBounds == {<<10, 20, 30, 40>>, <<0, 0, 639, 447>>, <<0, 0, 319, 223>>}

MouseCall(m) ==
    /\ frames < MaxMouse
    /\ frames' = frames + 1
    /\ mouse' = m
    /\ UNCHANGED <<regVars, bankVars, mpc, mcall, midx, mprog, mstatus, mret,
                   subVars, osVars, drawLog, hist>>

MousePoll == \E dev \in MouseDevices : MouseCall(Mouse_Poll(mouse, Nibbles(dev)).m)

MouseSetPosition == \E p \in MousePositions : MouseCall(Mouse_SetPosition(mouse, p.x, p.y))

MouseSetBounds ==
    \E b \in MouseBounds : MouseCall(Mouse_SetBounds(mouse, b[1], b[2], b[3], b[4]))

InitMouse ==
    /\ InitCommon
    /\ result = Status(SUB_STATE_READY)
    /\ mprog = "mouse"
    /\ mpc = "ready"
    /\ wm = WM_Init
    /\ sub = SubInit
    /\ apps = AppsInit

NextMouse == MousePoll \/ MouseSetPosition \/ MouseSetBounds

SpecMouse == InitMouse /\ [][NextMouse]_vars

(***************************************************************************)
(* The dispatcher with the window pool near and at its limit               *)
(***************************************************************************)
\* The dispatcher offered every kind of command, each sent with
\* main_send_cmd and awaited with main_wait_done, on a desktop that is
\* empty, holds one window, or holds 15 or all 16 windows of the pool:
\* the seven opcodes process_command has a case for, six it has none for
\* (CMD_BOOT, CMD_MOVE_WINDOW, 0x30, 0x41, 0x50, 0xFF), open-window with a
\* frame on the screen, right of it and left of it, close with the id of
\* slot 0 and with an id beyond the pool, and a mouse button pressed on the
\* title bar and on the close box of the window at (40,50), dragged to the
\* lower right corner of the screen and released.
MaxDispatch == 2

UnknownOpcodes == {CMD_BOOT, CMD_MOVE_WINDOW, 48, 65, 80, 255}

DispatchCalls ==
    { Call(CMD_INIT_OS, <<0, 0, 0, 0>>),
      Call(CMD_RENDER_FRAME, <<0, 0, 320, 224>>),
      Call(CMD_WRAM_SWAP, <<0, 0, 0, 0>>),
      Call(CMD_CD_PLAY, <<1, 0, 0, 0>>),
      Call(CMD_OPEN_WINDOW, <<40, 50, 100, 80>>),
      Call(CMD_OPEN_WINDOW, <<330, 50, 40, 40>>),
      Call(CMD_OPEN_WINDOW, <<65526, 30, 60, 40>>),
      Call(CMD_CLOSE_WINDOW, <<0, 0, 0, 0>>),
      Call(CMD_CLOSE_WINDOW, <<16, 0, 0, 0>>),
      Call(CMD_MOUSE_EVENT, <<60, 55, INPUT_EVT_MOUSE_DOWN * 256 + 1, 0>>),
      Call(CMD_MOUSE_EVENT, <<50, 60, INPUT_EVT_MOUSE_DOWN * 256 + 1, 0>>),
      Call(CMD_MOUSE_EVENT, <<310, 200, INPUT_EVT_MOUSE_DRAG * 256 + 1, 250>>),
      Call(CMD_MOUSE_EVENT, <<310, 200, INPUT_EVT_MOUSE_UP * 256, 0>>) }
    \cup { Call(op, <<1, 2, 3, 4>>) : op \in UnknownOpcodes }

DispatchSend ==
    /\ mpc = "ready"
    /\ frames < MaxDispatch
    /\ frames' = frames + 1
    /\ \E c \in DispatchCalls : mcall' = c
    /\ mpc' = "send_wait"
    /\ UNCHANGED <<regVars, bankVars, midx, mprog, mstatus, mret, mouse,
                   subVars, osVars, drawLog, hist>>

InitDispatch ==
    /\ InitCommon
    /\ mprog = "paired"
    /\ mpc = "ready"
    /\ \/ /\ wm = WM_Init
          /\ result = Status(SUB_STATE_READY)
       \/ /\ wm = OpenWindow(WM_Init, <<40, 50, 100, 80>>)
          /\ result = Status(OpenWindowResult(WM_Init))
       \/ \E n \in {WM_MAX_WINDOWS - 1, WM_MAX_WINDOWS} :
              /\ wm = NewWindows(WM_Init, n)
              /\ result = Status(n - 1)
    /\ sub = SubInit
    /\ apps = AppsInit

NextDispatch == DispatchSend \/ MainCall \/ SubStep \/ HwSwap

SpecDispatch == InitDispatch /\ [][NextDispatch]_vars

(***************************************************************************)
(* Properties: the command/status handshake                                *)
(***************************************************************************)
\* C1: once main_send_cmd has written an opcode, a second main_send_cmd
\* issued before main_wait_done has returned blocks in its wait loop: it
\* reaches neither its CMD0-3 writes nor its flag write.
C1_SingleFlight ==
    hist.inflight => mpc \notin {"send_param", "send_flag"}

\* C2: in main_loop, after an opcode is written the Main CPU writes no
\* further opcode and no CMD register until main_wait_done has returned
\* for that opcode.
C2_OneOutstanding == ~hist.clobber

\* C3: every opcode written to the Main flag is dispatched by
\* process_command exactly once, in order, with the parameters written for
\* it; when main_loop has finished a frame nothing written is undispatched.
C3_DispatchedOnce ==
    /\ Len(hist.disp) <= Len(hist.sent)
    /\ \A i \in 1..Len(hist.disp) :
          /\ i <= Len(hist.sent)
          /\ hist.disp[i][1] = hist.sent[i][1]
          /\ \A k \in 1..Len(hist.disp[i][2]) : hist.disp[i][2][k] = hist.sent[i][2][k]
    /\ (mpc = "fb_update" => Len(hist.disp) = Len(hist.sent))

\* C4: the flag events of a command come in the order Main := opcode,
\* Sub := Busy, Sub := Done or Error, Main := None, Sub := Idle: the Main
\* flag takes an opcode only from None while the Sub flag is Idle and is
\* cleared only while the Sub flag is Done or Error; the Sub flag moves only
\* Idle -> Busy -> (Done | Error) -> Idle, takes Busy only while the Main
\* flag holds an opcode and returns to Idle only while the Main flag is None.
C4_FlagOrder ==
    [][ /\ (cfm' # cfm =>
              \/ cfm = CMD_NONE /\ cfs = STATUS_IDLE
              \/ cfm' = CMD_NONE /\ cfs \in {STATUS_DONE, STATUS_ERROR})
        /\ (cfs' # cfs =>
              \/ cfs = STATUS_IDLE /\ cfs' = STATUS_BUSY /\ cfm # CMD_NONE
              \/ cfs = STATUS_BUSY /\ cfs' \in {STATUS_DONE, STATUS_ERROR}
              \/ cfs \in {STATUS_DONE, STATUS_ERROR} /\ cfs' = STATUS_IDLE /\ cfm = CMD_NONE)
      ]_vars

\* C5: main_wait_done returns STATUS_DONE exactly when the Sub CPU finished
\* the command with sub_done and STATUS_ERROR exactly when it finished with
\* sub_error; when it returns the Main flag is CMD_NONE and the Sub flag is
\* STATUS_IDLE.
C5_WaitDoneStatus ==
    [][ (mpc = "wd_idle" /\ mpc' # "wd_idle") =>
            /\ mret' \in {STATUS_DONE, STATUS_ERROR}
            /\ (mret' = STATUS_DONE <=> hist.fin = "done")
            /\ (mret' = STATUS_ERROR <=> hist.fin = "error")
            /\ cfm' = CMD_NONE
            /\ cfs' = STATUS_IDLE
      ]_vars

C5_Witness ==
    /\ mpc = "ready"
    /\ ~hist.inflight
    /\ mret = STATUS_ERROR
    /\ hist.fin = "error"
    /\ Len(hist.disp) = 2
    /\ hist.disp[1][1] = CMD_RENDER_FRAME

\* C6: for an opcode process_command does not recognise, the Sub flag goes
\* Busy and then Error, never Done; the window manager (pool, z-order,
\* active window, dirty accumulator) stays as it was; and the handshake
\* completes: the Sub CPU is back in sub_wait_cmd with its flag Idle.
KnownOpcodes ==
    {CMD_INIT_OS, CMD_RENDER_FRAME, CMD_OPEN_WINDOW, CMD_CLOSE_WINDOW,
     CMD_CD_PLAY, CMD_MOUSE_EVENT, CMD_WRAM_SWAP}
UnknownDispatched ==
    /\ scmd \notin KnownOpcodes
    /\ spc \notin {"wait_cmd", "ack"}
C6_UnknownOpcode ==
    /\ [](UnknownDispatched =>
            /\ cfs \in {STATUS_BUSY, STATUS_ERROR}
            /\ hist.fin # "done"
            /\ (cfs = STATUS_ERROR <=> hist.fin = "error")
            /\ wm = hist.wmAtAck)
    /\ (UnknownDispatched ~>
            (spc = "wait_cmd" /\ cfs = STATUS_IDLE /\ hist.fin = "error" /\ wm = hist.wmAtAck))

C6_Witness ==
    /\ scmd = CMD_MOVE_WINDOW
    /\ spc = "wait_cmd"
    /\ cfs = STATUS_IDLE
    /\ mret = STATUS_ERROR
    /\ hist.fin = "error"
    /\ wm.windowCount = 1
    /\ wm.dirtyCount > 0

(***************************************************************************)
(* Properties: the render-frame command and the Word RAM banks             *)
(***************************************************************************)
\* Positions in the call log of the current command.
Idx(log, op) == {i \in 1..Len(log) : log[i][1] = op}
Before(log, a, b) ==
    /\ Idx(log, a) # {}
    /\ Idx(log, b) # {}
    /\ \A i \in Idx(log, a), j \in Idx(log, b) : i < j
DrawOps ==
    {"SetClipRect", "FillRectPattern", "DrawWindowFrame", "drawProc",
     "ResetClip", "MenuBar_Draw", "MenuBar_DrawDropdown", "BlitCursor"}

\* C7: when main_wait_done returns for a render-frame command that found
\* the dirty accumulator empty (STATUS1 = 0), the command drew the menu bar
\* and the cursor, called sub_return_wram and finished with sub_done;
\* main_wait_done returns STATUS_DONE and main_read_result(0) is
\* SUB_STATE_READY.
C7_RenderEmptyFrame ==
    [][ (/\ mpc = "wd_idle" /\ mpc' # "wd_idle"
         /\ scmd = CMD_RENDER_FRAME
         /\ main_read_result(1) = 0) =>
            /\ mret' = STATUS_DONE
            /\ hist.fin = "done"
            /\ main_read_result(0)' = SUB_STATE_READY
            /\ Before(drawLog, "MenuBar_Draw", "BlitCursor")
            /\ Before(drawLog, "BlitCursor", "sub_return_wram")
            /\ Before(drawLog, "sub_return_wram", "sub_done")
      ]_vars

C7_Witness ==
    /\ mpc = "ready"
    /\ ~hist.inflight
    /\ scmd = CMD_RENDER_FRAME
    /\ main_read_result(1) = 0
    /\ mret = STATUS_DONE
    /\ main_read_result(0) = SUB_STATE_READY
    /\ Idx(drawLog, "SetClipRect") = {}
    /\ Idx(drawLog, "BlitCursor") # {}

\* C9: within a render-frame command every draw call and WM_EndUpdate come
\* before sub_return_wram, nothing is drawn after it, RET reads clear
\* before the Sub flag is set to Done, and once the Main CPU has seen Done
\* for the render-frame the bank drawn into is the Main CPU's.
C9_ReleaseAfterDraw ==
    (scmd = CMD_RENDER_FRAME /\ spc # "ack") =>
        /\ \A i \in Idx(drawLog, "sub_return_wram") :
              /\ Idx(drawLog, "WM_EndUpdate") # {}
              /\ Idx(drawLog, "BlitCursor") # {}
              /\ \A j \in 1..Len(drawLog) :
                    drawLog[j][1] \in DrawOps \cup {"WM_EndUpdate"} => j < i
        /\ \A i \in Idx(drawLog, "sub_done") :
              \E c \in Idx(drawLog, "sub_return_wram"), r \in Idx(drawLog, "RET_clear") :
                  c < r /\ r < i
        /\ (cfs = STATUS_DONE => memRET = 0 /\ mainBank = hist.drawBank)
        /\ (mpc \in {"wd_clear", "wd_idle"} /\ mstatus = STATUS_DONE =>
                memRET = 0 /\ mainBank = hist.drawBank)

C9_Witness ==
    /\ scmd = CMD_RENDER_FRAME
    /\ mpc = "wd_idle"
    /\ mstatus = STATUS_DONE
    /\ mainBank = hist.drawBank
    /\ Idx(drawLog, "DrawWindowFrame") # {}
    /\ Idx(drawLog, "sub_done") # {}

\* C10: in the drawing pass, each dirty rectangle gets the desktop pattern
\* first and then the visible windows from bottomWindow up to topWindow,
\* each window's frame followed by its draw callback, hidden windows not
\* drawn; the menu bar (and open pull-down) comes after all dirty
\* rectangles and the cursor after the menu bar, as the last draw.
IsFrameDraw(e) == e[1] = "DrawWindowFrame"
RECURSIVE ZOrderUp(_, _)
ZOrderUp(w, win) == IF win = NULL THEN <<>> ELSE <<win>> \o ZOrderUp(w, w.pool[win].above)
IsVisibleIn(w, win) == HasFlag(w.pool[win].flags, WFL_VISIBLE)
VisibleBottomUp(w) ==
    LET z == ZOrderUp(w, w.bottomWindow)
        keep == {i \in 1..Len(z) : IsVisibleIn(w, z[i])}
        Nth(k) == CHOOSE i \in keep : Cardinality({j \in keep : j <= i}) = k
    IN  [k \in 1..Cardinality(keep) |-> z[Nth(k)]]
SegmentEnd(log, i) ==
    CHOOSE j \in (i + 1)..Len(log) :
        /\ log[j][1] \in {"SetClipRect", "ResetClip"}
        /\ \A k \in (i + 1)..(j - 1) : log[k][1] \notin {"SetClipRect", "ResetClip"}
FramesDrawn(log, i) ==
    LET seg == SelectSeq(SubSeq(log, i + 1, SegmentEnd(log, i) - 1), IsFrameDraw)
    IN  [k \in 1..Len(seg) |-> seg[k][2]]
PainterOrder(log, w, tracking) ==
    LET n == Len(log)
        m == CHOOSE i \in Idx(log, "MenuBar_Draw") : TRUE
    IN  /\ n >= 4
        /\ log[n][1] = "WM_EndUpdate"
        /\ log[n - 1][1] = "BlitCursor"
        /\ Cardinality(Idx(log, "BlitCursor")) = 1
        /\ Cardinality(Idx(log, "MenuBar_Draw")) = 1
        /\ log[m - 1][1] = "ResetClip"
        /\ \A i \in 1..n :
              log[i][1] \in {"SetClipRect", "FillRectPattern", "DrawWindowFrame", "drawProc"}
                  => i < m - 1
        /\ (tracking => m = n - 3 /\ log[m + 1][1] = "MenuBar_DrawDropdown")
        /\ (~tracking => m = n - 2)
        /\ \A i \in Idx(log, "SetClipRect") :
              /\ log[i + 1] = <<"FillRectPattern", log[i][2]>>
              /\ FramesDrawn(log, i) = VisibleBottomUp(w)
        /\ \A i \in Idx(log, "DrawWindowFrame") :
              w.pool[log[i][2]].drawProc # "NULL" => log[i + 1] = <<"drawProc", log[i][2]>>
        /\ \A i \in Idx(log, "drawProc") : log[i - 1] = <<"DrawWindowFrame", log[i][2]>>
        /\ Cardinality(Idx(log, "SetClipRect")) = WM_BeginUpdate(w)
C10_PainterOrder ==
    [][drawLog' # drawLog => PainterOrder(drawLog', wm, MenuBar_IsTracking(menuBar) # 0)]_vars

C10_Witness ==
    /\ \E i \in Idx(drawLog, "SetClipRect") :
          /\ Len(FramesDrawn(drawLog, i)) = 2
          /\ FramesDrawn(drawLog, i) = VisibleBottomUp(wm)
          /\ FramesDrawn(drawLog, i)[2] # wm.topWindow
    /\ Idx(drawLog, "drawProc") # {}
    /\ wm.windowCount = 3

(***************************************************************************)
(* Properties: window lifecycle, z-order and activation                    *)
(***************************************************************************)
\* The windows met from win following `below`, at most fuel of them.
RECURSIVE WalkDown(_, _, _)
WalkDown(w, win, fuel) ==
    IF win = NULL \/ fuel = 0 THEN <<>>
    ELSE <<win>> \o WalkDown(w, w.pool[win].below, fuel - 1)

\* C11: after every WM_NewWindow, WM_DisposeWindow, WM_SelectWindow or
\* WM_SendToBack on an allocated window or a null argument, following
\* `below` from topWindow visits every allocated window exactly once and
\* ends at bottomWindow, the walk has windowCount windows, `above` is the
\* inverse of `below`, and topWindow and bottomWindow are both null exactly
\* when no window is allocated.
C11_ZOrderConsistent ==
    LET z == WalkDown(wm, wm.topWindow, WM_MAX_WINDOWS + 1)
    IN  /\ Len(z) = wm.windowCount
        /\ {z[i] : i \in 1..Len(z)} = UsedSlots(wm)
        /\ \A i, j \in 1..Len(z) : i # j => z[i] # z[j]
        /\ wm.bottomWindow = (IF Len(z) = 0 THEN NULL ELSE z[Len(z)])
        /\ \A i \in 1..Len(z) : wm.pool[z[i]].above = (IF i = 1 THEN NULL ELSE z[i - 1])
        /\ (wm.topWindow = NULL /\ wm.bottomWindow = NULL) <=> UsedSlots(wm) = {}
        /\ (wm.topWindow = NULL) <=> (wm.bottomWindow = NULL)

\* A window of the exhausted pool was disposed and another, not the bottom
\* one, was then sent to the back.
C11_Witness ==
    /\ hist.api.op = "WM_SendToBack"
    /\ hist.api.win # NULL
    /\ wm.bottomWindow = hist.api.win
    /\ wm.pool[hist.api.win].above # NULL
    /\ wm.windowCount = WM_MAX_WINDOWS - 1

\* C12: WM_NewWindow called while all 16 pool slots are allocated returns
\* null and leaves the pool, the z-order, activeWindow and the dirty
\* accumulator unchanged.
C12_PoolExhausted ==
    [][(/\ frames' # frames
        /\ hist'.api.op = "WM_NewWindow"
        /\ UsedSlots(wm) = 0..(WM_MAX_WINDOWS - 1))
       => (hist'.api.ret.window = NULL /\ wm' = wm)]_vars

\* WM_NewWindow returned null with 16 windows allocated.
C12_Witness ==
    /\ hist.api.op = "WM_NewWindow"
    /\ hist.api.ret.window = NULL
    /\ wm.windowCount = WM_MAX_WINDOWS
    /\ Cardinality(UsedSlots(wm)) = WM_MAX_WINDOWS

\* C13: activeWindow is null exactly when no window is allocated; otherwise
\* it refers to an allocated window, and that window is the only allocated
\* window carrying the Highlighted flag.
C13_OneActive ==
    /\ (wm.activeWindow = NULL) <=> (UsedSlots(wm) = {})
    /\ wm.activeWindow # NULL =>
          /\ wm.activeWindow \in UsedSlots(wm)
          /\ \A i \in UsedSlots(wm) :
                HasFlag(wm.pool[i].flags, WFL_HILITED) <=> (i = wm.activeWindow)

\* The active window was disposed while it was not the top window, and
\* others stayed open.
C13_Witness ==
    /\ hist.api.op = "WM_DisposeWindow"
    /\ hist.api.win # NULL
    /\ hist.api.win = hist.pre.active
    /\ hist.api.win # hist.pre.top
    /\ wm.windowCount >= 2

\* r, where it is not empty, lies inside one entry of the dirty accumulator.
InDirty(w, r) ==
    \/ r.left >= r.right
    \/ r.top >= r.bottom
    \/ \E i \in 0..(w.dirtyCount - 1) :
          /\ w.dirtyRects[i].valid # 0
          /\ w.dirtyRects[i].rect.left <= r.left
          /\ w.dirtyRects[i].rect.top <= r.top
          /\ r.right <= w.dirtyRects[i].rect.right
          /\ r.bottom <= w.dirtyRects[i].rect.bottom

\* C14: a successful WM_NewWindow takes the lowest free pool slot, makes the
\* new window topWindow with the previous top directly below it, makes it
\* the active window with Highlighted set and the previous active window's
\* Highlighted cleared, suppresses the title bar for plain/shadow styles (and
\* only for them), and adds the new frame to the dirty accumulator if and
\* only if the Visible flag was requested.
C14_NewWindow ==
    [][(/\ frames' # frames
        /\ hist'.api.op = "WM_NewWindow"
        /\ hist'.api.ret.window # NULL)
       => LET n == hist'.api.ret.window
              a == hist'.api
          IN  /\ n \in FreeSlots(wm)
              /\ \A j \in FreeSlots(wm) : n <= j
              /\ UsedSlots(wm') = UsedSlots(wm) \cup {n}
              /\ wm'.topWindow = n
              /\ wm'.pool[n].below = wm.topWindow
              /\ wm'.pool[n].above = NULL
              /\ wm'.activeWindow = n
              /\ HasFlag(wm'.pool[n].flags, WFL_HILITED)
              /\ wm.activeWindow # NULL =>
                    ~HasFlag(wm'.pool[wm.activeWindow].flags, WFL_HILITED)
              /\ (a.style \in {WM_STYLE_PLAIN, WM_STYLE_SHADOW})
                    <=> (wm'.pool[n].titleBar.bottom <= wm'.pool[n].titleBar.top)
              /\ wm'.pool[n].frame = rect_clip_to_screen(a.r)
              /\ IF HasFlag(a.flags, WFL_VISIBLE)
                 THEN InDirty(wm', wm'.pool[n].frame)
                 ELSE wm'.dirtyRects = wm.dirtyRects /\ wm'.dirtyCount = wm.dirtyCount]_vars

\* A visible shadow-style window was opened over a desktop whose active
\* window was not its top window.
C14_Witness ==
    /\ hist.api.op = "WM_NewWindow"
    /\ hist.api.ret.window # NULL
    /\ hist.api.style = WM_STYLE_SHADOW
    /\ hist.pre.top # NULL
    /\ hist.pre.active # hist.pre.top
    /\ wm.topWindow = hist.api.ret.window

\* C15: WM_DisposeWindow of an allocated window invalidates its frame,
\* removes it from the z-chain keeping the relative order of the remaining
\* windows, frees its pool slot (WM_GetWindowById of its id then returns
\* null), and sets activeWindow to the new topWindow (highlighted) if the
\* disposed window was the active one; otherwise activeWindow is unchanged.
C15_DisposeWindow ==
    [][(/\ frames' # frames
        /\ hist'.api.op = "WM_DisposeWindow"
        /\ hist'.api.win \in UsedSlots(wm))
       => LET win == hist'.api.win
              Keep(e) == e # win
          IN  /\ InDirty(wm', wm.pool[win].frame)
              /\ WalkDown(wm', wm'.topWindow, WM_MAX_WINDOWS + 1)
                    = SelectSeq(WalkDown(wm, wm.topWindow, WM_MAX_WINDOWS + 1), Keep)
              /\ UsedSlots(wm') = UsedSlots(wm) \ {win}
              /\ WM_GetWindowById(wm', wm.pool[win].id) = NULL
              /\ wm'.windowCount = wm.windowCount - 1
              /\ IF wm.activeWindow = win
                 THEN /\ wm'.activeWindow = wm'.topWindow
                      /\ wm'.topWindow # NULL =>
                            HasFlag(wm'.pool[wm'.topWindow].flags, WFL_HILITED)
                 ELSE wm'.activeWindow = wm.activeWindow]_vars

\* The active window, lying below the top window, was disposed and the top
\* window became active.
C15_Witness ==
    /\ hist.api.op = "WM_DisposeWindow"
    /\ hist.api.win # NULL
    /\ hist.api.win = hist.pre.active
    /\ hist.api.win # hist.pre.top
    /\ wm.activeWindow = hist.pre.top
    /\ wm.topWindow = hist.pre.top
    /\ wm.poolUsed[hist.api.win] = 0

\* C16: after WM_SelectWindow(w) on an allocated window w, in any reachable
\* state (states produced by WM_SendToBack included), w is topWindow, w is
\* the active window and carries Highlighted, the previously active window
\* no longer carries Highlighted, both frames are in the dirty accumulator
\* when a change occurred, and the relative z-order, ids, frames and flags
\* (other than Highlighted) of all other windows are unchanged.
C16_SelectWindow ==
    [][(/\ frames' # frames
        /\ hist'.api.op = "WM_SelectWindow"
        /\ hist'.api.win \in UsedSlots(wm))
       => LET win == hist'.api.win
              Keep(e) == e # win
          IN  /\ wm'.topWindow = win
              /\ wm'.activeWindow = win
              /\ HasFlag(wm'.pool[win].flags, WFL_HILITED)
              /\ (wm.activeWindow # NULL /\ wm.activeWindow # win) =>
                    ~HasFlag(wm'.pool[wm.activeWindow].flags, WFL_HILITED)
              /\ wm' # wm =>
                    /\ InDirty(wm', wm'.pool[win].frame)
                    /\ wm.activeWindow # NULL => InDirty(wm', wm.pool[wm.activeWindow].frame)
              /\ UsedSlots(wm') = UsedSlots(wm)
              /\ SelectSeq(WalkDown(wm', wm'.topWindow, WM_MAX_WINDOWS + 1), Keep)
                    = SelectSeq(WalkDown(wm, wm.topWindow, WM_MAX_WINDOWS + 1), Keep)
              /\ \A i \in UsedSlots(wm) \ {win} :
                    /\ wm'.pool[i].id = wm.pool[i].id
                    /\ wm'.pool[i].frame = wm.pool[i].frame
                    /\ ClearFlag(wm'.pool[i].flags, WFL_HILITED)
                          = ClearFlag(wm.pool[i].flags, WFL_HILITED)]_vars

(***************************************************************************)
(* Properties: window references held by the dispatcher                    *)
(***************************************************************************)
\* C17: across any sequence of open-window, close-window and mouse
\* commands, no window manager operation is applied to a window whose pool
\* slot is free; in particular dragWindow refers to an allocated window
\* whenever a mouse-drag event passes it to WM_MoveWindow.
C17_DragWindowAllocated ==
    [][(/\ spc = "exec"
        /\ spc' = "done_set"
        /\ scmd = CMD_MOUSE_EVENT
        /\ Input_DecodeMouseEvent(sparam).type = INPUT_EVT_MOUSE_DRAG
        /\ MenuBar_IsTracking(menuBar) = 0
        /\ sub.dragWindow # NULL)
       => wm.poolUsed[sub.dragWindow] # 0]_vars

(***************************************************************************)
(* Properties: hit testing and the dirty accumulator                       *)
(***************************************************************************)
\* The frontmost visible window whose frame contains pt, NULL if none.
FrontAt(w, pt) ==
    LET z == WalkDown(w, w.topWindow, WM_MAX_WINDOWS + 1)
        hits == {i \in 1..Len(z) :
                    /\ IsVisibleIn(w, z[i])
                    /\ w.pool[z[i]].frame.left <= pt.x /\ pt.x < w.pool[z[i]].frame.right
                    /\ w.pool[z[i]].frame.top <= pt.y /\ pt.y < w.pool[z[i]].frame.bottom}
    IN  IF hits = {} THEN NULL ELSE z[CHOOSE i \in hits : \A j \in hits : i <= j]

\* pt lies in the 12x12 close box at titleBar.left+4, titleBar.top+3.
InCloseBox(win, pt) ==
    /\ win.titleBar.left + 4 <= pt.x /\ pt.x < win.titleBar.left + 4 + CLOSE_SIZE
    /\ win.titleBar.top + 3 <= pt.y /\ pt.y < win.titleBar.top + 3 + CLOSE_SIZE

InTitleBar(win, pt) ==
    /\ win.titleBar.left <= pt.x /\ pt.x < win.titleBar.right
    /\ win.titleBar.top <= pt.y /\ pt.y < win.titleBar.bottom

\* The part found by testing close box, grow box, title bar, content and
\* border in this order, inClose telling whether the close box test succeeds.
PartInOrder(win, pt, inClose) ==
    IF inClose THEN WM_PART_CLOSE
    ELSE IF /\ HasFlag(win.flags, WFL_HAS_GROW)
            /\ win.frame.right - 13 <= pt.x /\ pt.x < win.frame.right - 1
            /\ win.frame.bottom - 13 <= pt.y /\ pt.y < win.frame.bottom - 1
    THEN WM_PART_GROW
    ELSE IF InTitleBar(win, pt) THEN WM_PART_DRAG
    ELSE IF /\ win.content.left <= pt.x /\ pt.x < win.content.right
            /\ win.content.top <= pt.y /\ pt.y < win.content.bottom
    THEN WM_PART_CONTENT
    ELSE WM_PART_DRAG

\* C18 as stated: for the frontmost visible window at a point, having the
\* close flag, WM_FindWindow returns Close for every point inside its close
\* box - for frame (10,10)-(100,100) and the point (15,14) in particular -
\* and within a window the tests are made in the order close box, grow box,
\* title bar (Drag), content, border (Drag).
C18_ClosePriority ==
    hist.api.op = "WM_FindWindow" =>
        LET pt == hist.api.pt
            f == FrontAt(wm, pt)
        IN  f # NULL =>
                hist.api.ret.part =
                    PartInOrder(wm.pool[f], pt,
                                HasFlag(wm.pool[f].flags, WFL_HAS_CLOSE)
                                    /\ InCloseBox(wm.pool[f], pt))

\* C18, amended: a point in the menu bar band (y < 20) returns MenuBar,
\* also inside a close box - the point (15,14) of the window with frame
\* (10,10)-(100,100) does; below the band the frontmost visible window at
\* the point is tested in the order close box, grow box, title bar (Drag),
\* content, border (Drag), and WM_FindWindow returns Close, not Drag, for
\* every point of the close box that lies inside the title bar.
C18_ClosePriorityBelowMenuBar ==
    hist.api.op = "WM_FindWindow" =>
        LET pt == hist.api.pt
            f == FrontAt(wm, pt)
        IN  /\ pt.y < WM_MENUBAR_H => hist.api.ret.part = WM_PART_MENUBAR
            /\ (pt.y >= WM_MENUBAR_H /\ f # NULL) =>
                    hist.api.ret.part =
                        PartInOrder(wm.pool[f], pt,
                                    /\ HasFlag(wm.pool[f].flags, WFL_HAS_CLOSE)
                                    /\ InCloseBox(wm.pool[f], pt)
                                    /\ InTitleBar(wm.pool[f], pt))

\* A point of the close box below the menu bar band, in a window with the
\* close and grow flags and frame (10,10)-(100,100), returned Close.
C18_Witness ==
    /\ hist.api.op = "WM_FindWindow"
    /\ hist.api.pt = Pt(15, 22)
    /\ hist.api.ret.part = WM_PART_CLOSE
    /\ hist.api.ret.window # NULL
    /\ wm.pool[hist.api.ret.window].frame = Rect(10, 10, 100, 100)
    /\ wm.pool[hist.api.ret.window].titleBar = Rect(11, 11, 99, 29)
    /\ HasFlag(wm.pool[hist.api.ret.window].flags, WFL_HAS_GROW)

\* C19: WM_FindWindow returns MenuBar with a null window for every point
\* with y < 20 whatever the windows; otherwise the frontmost window in
\* z-order that is Visible and whose frame contains the point (hidden
\* windows are never returned and never block), with a part other than
\* Desktop/None even in that window's border; Desktop with a null window if
\* no visible frame contains the point.
C19_FindWindow ==
    hist.api.op = "WM_FindWindow" =>
        LET pt == hist.api.pt
            f == FrontAt(wm, pt)
            ret == hist.api.ret
        IN  IF pt.y < WM_MENUBAR_H
            THEN ret.part = WM_PART_MENUBAR /\ ret.window = NULL
            ELSE IF f = NULL
            THEN ret.part = WM_PART_DESKTOP /\ ret.window = NULL
            ELSE /\ ret.window = f
                 /\ IsVisibleIn(wm, ret.window)
                 /\ ret.part \notin {WM_PART_DESKTOP, WM_PART_NONE, WM_PART_MENUBAR}

\* The point lies in the frame of the hidden top window and in the border
\* of a visible window behind it, which was returned.
C19_Witness ==
    /\ hist.api.op = "WM_FindWindow"
    /\ wm.topWindow # NULL
    /\ ~IsVisibleIn(wm, wm.topWindow)
    /\ rect_contains_point(wm.pool[wm.topWindow].frame, hist.api.pt)
    /\ hist.api.ret.window # NULL
    /\ hist.api.ret.window # wm.topWindow
    /\ hist.api.ret.part = WM_PART_DRAG
    /\ ~InTitleBar(wm.pool[hist.api.ret.window], hist.api.pt)

\* C20: for a rectangle r that is not empty on the screen and any
\* accumulator, WM_InvalidateRect(r) directly after WM_InvalidateRect(r)
\* leaves the accumulator as the first call left it; from an empty
\* accumulator the result is one entry.
C20_InvalidateIdempotent ==
    [][(/\ frames' # frames
        /\ hist'.api.op = "WM_InvalidateRect"
        /\ rect_clip_to_screen(hist'.api.r).left < rect_clip_to_screen(hist'.api.r).right
        /\ rect_clip_to_screen(hist'.api.r).top < rect_clip_to_screen(hist'.api.r).bottom)
       => /\ hist'.pre.repeat =>
                /\ wm'.dirtyCount = wm.dirtyCount
                /\ wm'.dirtyRects = wm.dirtyRects
          /\ wm.dirtyCount = 0 =>
                /\ wm'.dirtyCount = 1
                /\ wm'.dirtyRects[0] = [rect |-> rect_clip_to_screen(hist'.api.r), valid |-> 1]]_vars

\* The same rectangle was invalidated twice in a row with the accumulator
\* full.
C20_Witness ==
    /\ hist.api.op = "WM_InvalidateRect"
    /\ hist.pre.repeat
    /\ hist.api.r = Rect(0, 0, 50, 50)
    /\ wm.dirtyCount = WM_MAX_DIRTY_RECTS

\* C21: starting from an empty accumulator, invalidating two disjoint
\* rectangles A and B and then a rectangle C that intersects both leaves
\* exactly one accumulator entry, the bounding union of A, B and C.
C21_SpanningMerge ==
    (/\ Len(hist.inval) = 3
     /\ ~rect_intersects(hist.inval[1], hist.inval[2])
     /\ rect_intersects(hist.inval[3], hist.inval[1])
     /\ rect_intersects(hist.inval[3], hist.inval[2]))
    => /\ wm.dirtyCount = 1
       /\ wm.dirtyRects[0].valid # 0
       /\ wm.dirtyRects[0].rect =
              rect_union(rect_union(hist.inval[1], hist.inval[2]), hist.inval[3])

\* C22: after any sequence of WM_InvalidateRect / WM_InvalidateWindow
\* calls, no two valid entries of the dirty accumulator intersect.
C22_EntriesDisjoint ==
    \A i, j \in 0..(wm.dirtyCount - 1) :
        (i < j /\ wm.dirtyRects[i].valid # 0 /\ wm.dirtyRects[j].valid # 0)
        => ~rect_intersects(wm.dirtyRects[i].rect, wm.dirtyRects[j].rect)

\* C23: every rectangle handed to WM_InvalidateRect since the last
\* WM_EndUpdate, clipped to the screen, lies inside a valid accumulator
\* entry, also after more than 32 mutually disjoint invalidations.
C23_InvalidatedCovered ==
    \A i \in 1..Len(hist.inval) : InDirty(wm, hist.inval[i])

\* A 33rd rectangle, disjoint from the 32 entries, was merged into entry 0.
C23_Witness ==
    /\ Len(hist.inval) = WM_MAX_DIRTY_RECTS + 1
    /\ wm.dirtyCount = WM_MAX_DIRTY_RECTS
    /\ \A i \in 1..WM_MAX_DIRTY_RECTS :
           /\ ~rect_intersects(hist.inval[i], hist.inval[WM_MAX_DIRTY_RECTS + 1])
           /\ \A j \in 1..WM_MAX_DIRTY_RECTS :
                  i # j => ~rect_intersects(hist.inval[i], hist.inval[j])
    /\ wm.dirtyRects[0].rect # hist.inval[1]

\* C24: dirtyCount never exceeds 32, entries 0..dirtyCount-1 are valid,
\* non-empty rectangles within the 320x224 screen, and WM_InvalidateRect of
\* a rectangle that is empty after clipping to the screen leaves the
\* accumulator unchanged.
C24_AccumulatorBounded ==
    /\ [](/\ wm.dirtyCount <= WM_MAX_DIRTY_RECTS
          /\ \A i \in 0..(wm.dirtyCount - 1) :
                 /\ wm.dirtyRects[i].valid # 0
                 /\ 0 <= wm.dirtyRects[i].rect.left
                 /\ wm.dirtyRects[i].rect.left < wm.dirtyRects[i].rect.right
                 /\ wm.dirtyRects[i].rect.right <= WM_SCREEN_W
                 /\ 0 <= wm.dirtyRects[i].rect.top
                 /\ wm.dirtyRects[i].rect.top < wm.dirtyRects[i].rect.bottom
                 /\ wm.dirtyRects[i].rect.bottom <= WM_SCREEN_H)
    /\ [][(/\ hist'.api.op = "WM_InvalidateRect"
           /\ \/ rect_clip_to_screen(hist'.api.r).left >= rect_clip_to_screen(hist'.api.r).right
              \/ rect_clip_to_screen(hist'.api.r).top >= rect_clip_to_screen(hist'.api.r).bottom)
          => /\ wm'.dirtyCount = wm.dirtyCount
             /\ wm'.dirtyRects = wm.dirtyRects]_vars

\* A rectangle wholly off the screen was invalidated while the accumulator
\* held entries, one of them clipped at the screen edge.
C24_Witness ==
    /\ hist.api.op = "WM_InvalidateRect"
    /\ hist.api.r.left >= WM_SCREEN_W
    /\ wm.dirtyCount >= 2
    /\ \E i \in 0..(wm.dirtyCount - 1) : wm.dirtyRects[i].rect.right = WM_SCREEN_W

\* C25: WM_BeginUpdate returns the number of pending entries and does not
\* modify the accumulator; WM_GetDirtyRect(i) returns entry i for i < count
\* and null for i >= count; after WM_EndUpdate the count is 0, every entry
\* is invalid and WM_GetDirtyRect returns null for every index.
C25_UpdateCycle ==
    [][/\ hist'.api.op = "WM_BeginUpdate"
          => /\ hist'.query.ret = wm.dirtyCount
             /\ wm' = wm
       /\ hist'.api.op = "WM_GetDirtyRect"
          => /\ hist'.query.index < wm.dirtyCount => hist'.query.ret = hist'.query.index
             /\ hist'.query.index >= wm.dirtyCount => hist'.query.ret = NULL
             /\ wm' = wm
       /\ hist'.api.op = "WM_EndUpdate"
          => /\ wm'.dirtyCount = 0
             /\ \A i \in 0..(WM_MAX_DIRTY_RECTS - 1) : wm'.dirtyRects[i].valid = 0
             /\ \A i \in 0..255 : WM_GetDirtyRect(wm', i) = NULL]_vars

\* WM_EndUpdate ended an update of 32 pending entries.
C25_Witness ==
    /\ hist.api.op = "WM_EndUpdate"
    /\ wm.dirtyCount = 0
    /\ \A i \in 0..(WM_MAX_DIRTY_RECTS - 1) :
           wm.dirtyRects[i].rect.left < wm.dirtyRects[i].rect.right

\* C26: WM_MoveWindow and WM_SizeWindow on an allocated window leave the
\* window's old frame and its new frame, each clipped to the screen, covered
\* by the dirty accumulator, leave titleBar and content equal to the
\* style-dependent function of the new frame, and leave z-order, active
\* window and all other windows unchanged.
C26_MoveSizeWindow ==
    [][(hist'.api.op \in {"WM_MoveWindow", "WM_SizeWindow"} /\ hist'.api.win # NULL)
       => /\ InDirty(wm', rect_clip_to_screen(wm.pool[hist'.api.win].frame))
          /\ InDirty(wm', rect_clip_to_screen(wm'.pool[hist'.api.win].frame))
          /\ compute_window_rects(wm'.pool[hist'.api.win]) = wm'.pool[hist'.api.win]
          /\ [wm'.pool[hist'.api.win] EXCEPT !.frame = wm.pool[hist'.api.win].frame,
                                             !.titleBar = wm.pool[hist'.api.win].titleBar,
                                             !.content = wm.pool[hist'.api.win].content]
                 = wm.pool[hist'.api.win]
          /\ wm'.topWindow = wm.topWindow
          /\ wm'.bottomWindow = wm.bottomWindow
          /\ wm'.activeWindow = wm.activeWindow
          /\ wm'.poolUsed = wm.poolUsed
          /\ \A o \in 0..(WM_MAX_WINDOWS - 1) :
                 o # hist'.api.win => wm'.pool[o] = wm.pool[o]]_vars

\* A window was moved against the screen edge, away from its old frame: the
\* accumulator holds the old frame and the clipped new frame.
C26_Witness ==
    /\ hist.api.op = "WM_MoveWindow"
    /\ hist.api.win # NULL
    /\ wm.pool[hist.api.win].frame.left = hist.api.pt.x
    /\ wm.pool[hist.api.win].frame.right = WM_SCREEN_W
    /\ wm.dirtyCount = 2

\* Opcode writes of the current main_loop iteration that wrote opcode op.
SentInLoop(op) ==
    Cardinality({i \in (hist.poll.base + 1)..Len(hist.sent) : hist.sent[i][1] = op})

\* C27: Mouse_Poll makes at most 9 x 4000 waiting reads of the port; when a
\* nibble wait times out or nibble 0 is not 0 it returns 0 with connected = 0
\* and the position unchanged, and that main_loop iteration writes no
\* mouse-event opcode and still writes the render-frame opcode (its
\* main_send_cmd does not block).
C27_PollDegrades ==
    /\ hist.poll.reads <= MOUSE_NIBBLES * TL_RETRIES
    /\ (hist.poll.ret # NULL /\ (hist.poll.timeout \/ hist.poll.id # 0))
       => /\ hist.poll.ret = 0
          /\ mouse.connected = 0
          /\ mouse.x = hist.poll.x
          /\ mouse.y = hist.poll.y
          /\ SentInLoop(CMD_MOUSE_EVENT) = 0
          /\ mpc \in {"send_wait", "send_param", "send_flag", "wd_poll", "wd_clear", "wd_idle",
                       "fb_update", "vsync"}
          /\ mpc = "send_wait" => cfs = STATUS_IDLE
          /\ SentInLoop(CMD_RENDER_FRAME) =
                 IF mpc \in {"send_wait", "send_param", "send_flag"} THEN 0 ELSE 1

\* After the pointer was moved by a connected mouse, a transfer timed out
\* in its fifth nibble and the iteration went on to its frame update.
C27_Witness ==
    /\ hist.poll.timeout
    /\ hist.poll.reads = 4 + TL_RETRIES
    /\ mouse.x # 160
    /\ mouse.connected = 0
    /\ mpc = "fb_update"
    /\ SentInLoop(CMD_RENDER_FRAME) = 1

\* Opcode writes made so far in the current main_loop iteration: none of
\* the render-frame opcode before main_send_cmd's flag write and one after
\* it, one of the mouse-event opcode once Input_SendMouseEvent is through if
\* the mouse is connected and buttons or position changed, else none, and
\* the event type it carries.
LoopWrites ==
    LET changed == mouse.buttons # mouse.prevButtons
        newly == \E b \in {1, 2, 4, 8} :
                     HasFlag(mouse.buttons, b) /\ ~HasFlag(mouse.prevButtons, b)
        moved == mouse.dx # 0 \/ mouse.dy # 0
        events == {i \in (hist.poll.base + 1)..Len(hist.sent) :
                      hist.sent[i][1] = CMD_MOUSE_EVENT}
    IN  hist.poll.ret # NULL
        => /\ SentInLoop(CMD_RENDER_FRAME) =
                  IF mpc \in {"ise_param", "ise_flag", "send_wait", "send_param", "send_flag"}
                  THEN 0 ELSE 1
           /\ SentInLoop(CMD_MOUSE_EVENT) =
                  IF mpc \notin {"ise_param", "ise_flag"}
                     /\ mouse.connected = 1 /\ (changed \/ moved) THEN 1 ELSE 0
           /\ \A i \in events :
                  hist.sent[i][2][3] \div 256 =
                      IF newly THEN INPUT_EVT_MOUSE_DOWN
                      ELSE IF changed THEN INPUT_EVT_MOUSE_UP
                      ELSE IF mouse.buttons # 0 THEN INPUT_EVT_MOUSE_DRAG
                      ELSE INPUT_EVT_MOUSE_MOVE

\* C28: in each main_loop iteration the render-frame opcode is written
\* exactly once, and the mouse-event opcode exactly once if the mouse is
\* connected and its buttons differ from the previous poll or dx/dy is
\* non-zero, and not at all otherwise; the event type is Down if a button is
\* newly pressed, Up if the buttons changed with none newly pressed, Drag if
\* the mouse moved with a button held, Move if it moved with none held.
C28_OncePerIteration ==
    /\ []LoopWrites
    /\ (hist.poll.ret # NULL /\ mpc = "send_wait") ~> (mpc = "wd_poll")

\* C29: after boot, STATUS register 0 always holds a SubCPUState: Rendering
\* while a render-frame command is being drawn, and Ready whenever the Sub
\* flag is Idle, after any sequence of commands.
C29_StatusRegister ==
    /\ result[0] \in {SUB_STATE_RESET, SUB_STATE_BOOTING, SUB_STATE_READY,
                       SUB_STATE_RENDERING, SUB_STATE_CRASHED}
    /\ (scmd = CMD_RENDER_FRAME
        /\ spc \in {"render_draw", "ret_set", "ret_wait", "render_ready"})
       => result[0] = SUB_STATE_RENDERING
    /\ cfs = STATUS_IDLE => result[0] = SUB_STATE_READY

\* C30: a close-window command whose parameter 0 is not the id of an
\* allocated window (a free slot's id, or a value >= 16 such as 0x0100)
\* writes 0xFF to result register 0, completes with Done and leaves the
\* window manager state unchanged; a parameter equal to an allocated
\* window's id disposes exactly that window and writes 0.
C30_CloseWindow ==
    [][(spc = "exec" /\ spc' # "exec" /\ scmd = CMD_CLOSE_WINDOW)
       => IF sparam[1] < WM_MAX_WINDOWS /\ wm.poolUsed[sparam[1]] # 0
          THEN /\ wm' = WM_DisposeWindow(wm, sparam[1])
               /\ result'[0] = 0
               /\ spc' = "done_set"
          ELSE /\ wm' = wm
               /\ result'[0] = 255
               /\ spc' = "done_set"]_vars


(***************************************************************************)
(* The dispatcher: results, status mapping and the window pool             *)
(***************************************************************************)
\* The step of process_command that runs the body of the case for op.
ExecOf(op) == spc = "exec" /\ scmd = op /\ spc' # spc

\* C31: an open-window command always completes with Done.  When a pool
\* slot is free, result register 0 holds the pool index (0..15) of the new
\* window, a slot that was not allocated before the command; when all 16
\* slots are in use it holds 0xFF and the window manager state is unchanged.
C31_OpenWindow ==
    [][ /\ ExecOf(CMD_OPEN_WINDOW) =>
            /\ spc' = "done_set"
            /\ IF FreeSlots(wm) # {}
               THEN /\ result'[0] \in FreeSlots(wm)
                    /\ result'[0] \notin FreeSlots(wm')
                    /\ FreeSlots(wm') = FreeSlots(wm) \ {result'[0]}
                    /\ wm'.pool[result'[0]].id = result'[0]
                    /\ wm'.topWindow = result'[0]
               ELSE /\ result'[0] = 255
                    /\ wm' = wm
        /\ (scmd = CMD_OPEN_WINDOW /\ spc = "done_set" /\ spc' # spc) =>
               cfs' = STATUS_DONE ]_vars

C31_Witness ==
    /\ scmd = CMD_OPEN_WINDOW
    /\ spc = "done_wait"
    /\ cfs = STATUS_DONE
    /\ result[0] = 255
    /\ FreeSlots(wm) = {}
    /\ wm = hist.wmAtAck

\* C32: the mapping from opcode to final status is total and fixed:
\* 0x02, 0x10, 0x11, 0x20, 0x21, 0x40 and 0x60 end with Done, every other
\* non-zero opcode (0x01 and 0x22 among them) ends with Error, and every
\* command is acknowledged with Busy before it has any other effect.
InCommand == spc \notin {"wait_cmd", "ack", "done_wait", "done_idle"}

C32_StatusMapping ==
    /\ [](/\ InCommand => cfs = STATUS_BUSY
          /\ spc = "done_wait" =>
                 /\ scmd # CMD_NONE
                 /\ cfs = (IF scmd \in {2, 16, 17, 32, 33, 64, 96}
                           THEN STATUS_DONE ELSE STATUS_ERROR))
    /\ [][ /\ spc \in {"wait_cmd", "ack"} =>
                UNCHANGED <<result, osVars, bankVars>>
           /\ (spc = "ack" /\ spc' # spc) => cfs' = STATUS_BUSY ]_vars

C32_Witness ==
    /\ Len(hist.disp) = 2
    /\ hist.disp[1][1] = CMD_CD_PLAY
    /\ scmd = CMD_MOVE_WINDOW
    /\ spc = "done_wait"
    /\ cfs = STATUS_ERROR

(***************************************************************************)
(* main_loop: progress of the frame loop and the frame-buffer upload       *)
(***************************************************************************)
\* The Main CPU spins in main_send_cmd until the Sub flag is Idle while the
\* Sub CPU spins in sub_done / sub_error until the Main flag is CMD_NONE.
MutualWait ==
    /\ mpc = "send_wait"
    /\ cfs \in {STATUS_DONE, STATUS_ERROR}
    /\ spc = "done_wait"
    /\ cfm # CMD_NONE

\* C33: the frame loop is free of deadlock: no reachable state has the
\* Main CPU waiting in main_send_cmd for Idle while the Sub CPU waits in
\* sub_done or sub_error for CMD_NONE, so that every iteration of main_loop,
\* also one that sends a mouse event, goes on to FB_UpdateFrame.
C33_DeadlockFree == ~MutualWait

\* C34: while the Main CPU runs FB_UpdateFrame its flag is CMD_NONE, the
\* Sub flag is Idle and the Sub CPU waits in sub_wait_cmd, so nothing is
\* drawn into either bank during the upload.
C34_QuietUpload ==
    mpc = "fb_update" =>
        /\ cfm = CMD_NONE
        /\ cfs = STATUS_IDLE
        /\ spc = "wait_cmd"

C34_Witness ==
    /\ mpc = "fb_update"
    /\ frames = MaxFrames
    /\ Len(hist.sent) >= 3
    /\ hist.drawBank = mainBank

\* C35: with the banks exchanged by every sub_return_wram, the bank a
\* render-frame command hands to the Main CPU holds the repaint of every
\* rectangle invalidated since that bank was last drawn into: once the
\* drawing pass is over, nothing invalidated is still missing from the bank
\* it drew into.
C35_NoStaleRegion ==
    (scmd = CMD_RENDER_FRAME /\ spc \in {"ret_set", "ret_wait", "render_ready", "done_set"})
        => hist.stale[hist.drawBank] = {}

(***************************************************************************)
(* Invariants of the window manager                                        *)
(***************************************************************************)
\* C36: after any sequence of WM_NewWindow, WM_DisposeWindow,
\* WM_SelectWindow and WM_SendToBack on allocated windows, whenever a
\* window exists the active window is the top window.
C36_ActiveIsTop ==
    wm.windowCount > 0 => wm.activeWindow = wm.topWindow

\* C37: after any sequence of dispatcher commands, windowCount equals the
\* number of pool slots in use and the length of the z-chain, the chain
\* holds exactly the slots in use, every window's id is its slot index, and
\* windowCount stays within 0..16.
C37_PoolAccounting ==
    LET chain == WalkDown(wm, wm.topWindow, WM_MAX_WINDOWS + 1)
    IN  /\ wm.windowCount \in 0..WM_MAX_WINDOWS
        /\ wm.windowCount = Cardinality(UsedSlots(wm))
        /\ wm.windowCount = Len(chain)
        /\ {chain[i] : i \in 1..Len(chain)} = UsedSlots(wm)
        /\ \A i \in UsedSlots(wm) : wm.pool[i].id = i

\* The pool was full, slot 0 was closed and an open-window command took
\* the slot again.
C37_Witness ==
    /\ Len(hist.disp) = 2
    /\ hist.disp[1][1] = CMD_CLOSE_WINDOW
    /\ hist.disp[2][1] = CMD_OPEN_WINDOW
    /\ spc = "done_wait"
    /\ hist.wmAtAck.windowCount = WM_MAX_WINDOWS - 1
    /\ wm.windowCount = WM_MAX_WINDOWS
    /\ wm.topWindow = 0

\* C38: the frame of every allocated window satisfies
\* 0 <= left <= right <= 320 and 0 <= top <= bottom <= 224 after any
\* sequence of open-window commands (with arbitrary 16-bit x, y, w, h),
\* WM_NewWindow, WM_MoveWindow and WM_SizeWindow.
C38_FrameOnScreen ==
    \A i \in UsedSlots(wm) :
        /\ 0 <= wm.pool[i].frame.left
        /\ wm.pool[i].frame.left <= wm.pool[i].frame.right
        /\ wm.pool[i].frame.right <= WM_SCREEN_W
        /\ 0 <= wm.pool[i].frame.top
        /\ wm.pool[i].frame.top <= wm.pool[i].frame.bottom
        /\ wm.pool[i].frame.bottom <= WM_SCREEN_H

\* C39: dragging a window (button pressed on its title bar or border, drag
\* events with the pointer inside the 320x224 screen, button released)
\* never changes its width or height: after every drag event right - left
\* and bottom - top are what they were before it, hence what they were at
\* mouse-down, and the top of the frame is at or below the menu bar (20).
C39_DragKeepsSize ==
    [][ (/\ ExecOf(CMD_MOUSE_EVENT)
         /\ Input_DecodeMouseEvent(sparam).type = INPUT_EVT_MOUSE_DRAG
         /\ Input_DecodeMouseEvent(sparam).x \in 0..(WM_SCREEN_W - 1)
         /\ Input_DecodeMouseEvent(sparam).y \in 0..(WM_SCREEN_H - 1)
         /\ MenuBar_IsTracking(menuBar) = 0
         /\ sub.dragWindow \in UsedSlots(wm))
        => LET before == wm.pool[sub.dragWindow].frame
               after == wm'.pool[sub.dragWindow].frame
           IN  /\ after.right - after.left = before.right - before.left
               /\ after.bottom - after.top = before.bottom - before.top
               /\ after.top >= WM_MENUBAR_H ]_vars

(***************************************************************************)
(* The mouse event across the two CPUs                                     *)
(***************************************************************************)
\* The InputEvent Input_SendMouseEvent encodes from the mouse state.
EncodedEvent(m) ==
    [x |-> m.x, y |-> m.y, type |-> MouseEventType(m), buttons |-> m.buttons,
     dx |-> m.dx, dy |-> m.dy]

\* The part of an event the four CMD registers carry.
Carried(e) == [x |-> e.x, y |-> e.y, type |-> e.type, buttons |-> e.buttons, dx |-> e.dx]

\* C40: the mouse event round trip: the InputEvent Input_DecodeMouseEvent
\* decodes has the x, y, type, buttons, dx and dy Input_SendMouseEvent
\* encoded (checked where the registers were not overwritten in between).
C40_RoundTrip ==
    (scmd = CMD_MOUSE_EVENT /\ spc = "exec" /\ ~hist.clobber)
        => Input_DecodeMouseEvent(sparam) = EncodedEvent(mouse)

\* The same for the five fields the registers carry.
CarriedRoundTrip ==
    (scmd = CMD_MOUSE_EVENT /\ spc = "exec" /\ ~hist.clobber)
        => Carried(Input_DecodeMouseEvent(sparam)) = Carried(EncodedEvent(mouse))

==========================================================================
